---------------------------- MODULE Spec2Model ----------------------------
(***************************************************************************)
(* A model of the jogata backend: the pack purchase flow (routes/packs.js) *)
(* and the marketplace exchange (routes/marketplace.js) over the tables of *)
(* prisma/migrations/001_init/migration.sql.                               *)
(*                                                                         *)
(* Request handlers run on one event loop: a handler runs without          *)
(* interruption between two awaits and may be interleaved with other       *)
(* handlers at each await.  A handler with several awaited database calls  *)
(* is therefore a process with one action per awaited call; an interactive *)
(* prisma.$transaction commits or rolls back as one step.                  *)
(***************************************************************************)
EXTENDS Integers, Sequences, FiniteSets, Bags, TLC

VARIABLES
    users,          \* table users: user id -> [email, username, passwordHash,
                    \*     isVerified, walletAddress]
    styleCards,     \* table style_cards: card id -> [rarity, isActive, maxSupply, currentSupply]
    userStyles,     \* table user_styles: a bag of ownership rows
    transactions,   \* table transactions: a bag of rows
    userProfiles,   \* table user_profiles: user -> [packsPurchased, totalPoints,
                    \*     displayName, country, isFounder, founderTier]
    listings,       \* table marketplace_listings: listing id (1..) -> row
    now,            \* the wall clock (seconds)
    reqs,           \* the handlers suspended at an await: a bag of their local states
    last,           \* the response of the handler that completed last
    packCards,      \* the value generatePackCards returned last (allocator runs)
    returned,       \* the last call of a pure function and what it returned
    tournaments,    \* table tournaments: id -> [status, maxEntries, entryFee]
    tournamentEntries,  \* table tournament_entries: a bag of [userId, tournamentId]
    preOrders,      \* table pre_orders: pre-order id (1..) -> row
    matches,        \* table matches: apiId -> [status, processed]
    tokens          \* the bearer tokens the server has signed: [userId, exp]

vars == <<users, styleCards, userStyles, transactions, userProfiles, listings, now,
          reqs, last, packCards, returned, tournaments, tournamentEntries,
          preOrders, matches, tokens>>

-----------------------------------------------------------------------------
(* Bounds of the model *)

MaxQuantity == 2        \* largest quantity requested in one pack purchase
MaxListings == 1        \* listings ever created
MaxTicks == 1           \* clock advances
MaxInFlight == 2        \* handlers suspended at an await at once
MaxSupply == 1          \* maxSupply of the catalogue's cards

Users == {"u1", "u2", "u3"}

-----------------------------------------------------------------------------
(* Program constants *)

RarityOrder == <<"COMMON", "RARE", "LEGENDARY", "MYTHIC">>

PACK_TYPES ==
    [STARTER   |-> [name |-> "Starter Pack", price |-> 999, cards |-> 5,
                    rarityDistribution |->
                        [COMMON |-> 5, RARE |-> 0, LEGENDARY |-> 0, MYTHIC |-> 0]],
     PREMIUM   |-> [name |-> "Premium Pack", price |-> 2499, cards |-> 5,
                    rarityDistribution |->
                        [COMMON |-> 2, RARE |-> 3, LEGENDARY |-> 0, MYTHIC |-> 0]],
     EVOLUTION |-> [name |-> "Evolution Pack", price |-> 4999, cards |-> 3,
                    rarityDistribution |->
                        [COMMON |-> 0, RARE |-> 2, LEGENDARY |-> 1, MYTHIC |-> 0]],
     GENESIS   |-> [name |-> "Genesis Pack", price |-> 9999, cards |-> 2,
                    rarityDistribution |->
                        [COMMON |-> 0, RARE |-> 0, LEGENDARY |-> 1, MYTHIC |-> 1]]]

PackTypeNames == DOMAIN PACK_TYPES

MIN_QUANTITY == 1
MAX_QUANTITY == 10

-----------------------------------------------------------------------------
(* The catalogue (style_cards).  No route writes it: it is seeded data.    *)

Card(rarity, active) ==
    [rarity |-> rarity, isActive |-> active, maxSupply |-> MaxSupply,
     currentSupply |-> 0]

\* nC commons, nR rares, nL legendaries, nM mythics; the cards in `inactive`
\* have isActive = FALSE
MakeCatalog(nC, nR, nL, nM, inactive) ==
    LET n == [COMMON |-> nC, RARE |-> nR, LEGENDARY |-> nL, MYTHIC |-> nM]
        ids == {<<RarityOrder[i], k>> : i \in 1..4, k \in 1..4}
        present == {id \in ids : id[2] <= n[id[1]]}
    IN  [id \in present |-> Card(id[1], id \notin inactive)]

Catalogs ==
    { MakeCatalog(1, 1, 2, 2, off) : off \in {{}, {<<"LEGENDARY", 1>>}} }
    \cup { MakeCatalog(0, 2, 1, 0, off) : off \in {{}, {<<"LEGENDARY", 1>>}} }

-----------------------------------------------------------------------------
(* generatePackCards (packs.js:253-276)                                    *)

\* tx.styleCard.findMany({ where: { rarity } })
availableCards(catalog, rarity) ==
    {id \in DOMAIN catalog : catalog[id].rarity = rarity}

\* (mutant) the inner loop stops one pick early
RandomPicksShort(pool, count) == [1..(count - 1) -> pool]

\* the `count` picks of the inner loop, each availableCards[randomIndex]
RandomPicks(pool, count) == [1..count -> pool]

NoError == "none"

RECURSIVE generateFrom(_, _, _)

\* (mutant) the loop without `if (count === 0) continue`
generateFromNoSkip(i, distribution, catalog) ==
    IF i > Len(RarityOrder) THEN {[error |-> NoError, cards |-> <<>>]}
    ELSE LET rarity == RarityOrder[i]
             count == distribution[rarity]
             pool == availableCards(catalog, rarity)
         IN  IF pool = {} THEN {[error |-> rarity, cards |-> <<>>]}
             ELSE { IF rest.error = NoError
                        THEN [error |-> NoError, cards |-> picks \o rest.cards]
                        ELSE rest :
                    picks \in RandomPicks(pool, count),
                    rest \in generateFrom(i + 1, distribution, catalog) }

\* the outcomes of the loop over Object.entries(rarityDistribution) from the
\* i-th entry on: the cards pushed, or the rarity whose pool was empty
generateFrom(i, distribution, catalog) ==
    IF i > Len(RarityOrder) THEN {[error |-> NoError, cards |-> <<>>]}
    ELSE LET rarity == RarityOrder[i]
             count == distribution[rarity]
             pool == availableCards(catalog, rarity)
         IN  IF count = 0 THEN generateFrom(i + 1, distribution, catalog)
             ELSE IF pool = {} THEN {[error |-> rarity, cards |-> <<>>]}
             ELSE { IF rest.error = NoError
                        THEN [error |-> NoError, cards |-> picks \o rest.cards]
                        ELSE rest :
                    picks \in RandomPicks(pool, count),
                    rest \in generateFrom(i + 1, distribution, catalog) }

generatePackCards(packConfig, catalog) ==
    generateFrom(1, packConfig.rarityDistribution, catalog)

\* the loop of packs.js:108-112: allCards after `quantity` packs, or the
\* error of the first pack that threw
RECURSIVE allCardsOf(_, _, _)
allCardsOf(packConfig, quantity, catalog) ==
    IF quantity = 0 THEN {[error |-> NoError, cards |-> <<>>]}
    ELSE { IF pack.error # NoError THEN pack
           ELSE IF rest.error # NoError THEN rest
           ELSE [error |-> NoError, cards |-> pack.cards \o rest.cards] :
           pack \in generatePackCards(packConfig, catalog),
           rest \in allCardsOf(packConfig, quantity - 1, catalog) }

-----------------------------------------------------------------------------
(* The database                                                            *)

Db == [transactions |-> transactions, userStyles |-> userStyles,
       userProfiles |-> userProfiles, listings |-> listings]

\* a new user_styles row: the points and the activation count default to 0
NewUserStyle(u, c) ==
    [userId |-> u, styleCardId |-> c, totalPoints |-> 0, weeklyPoints |-> 0,
     activationCount |-> 0]

RowsOf(rows, u, c) ==
    {r \in BagToSet(rows) : r.userId = u /\ r.styleCardId = c}

\* the rows a user holds of a card, counted with their copies
RowCount(rows, u, c) ==
    LET held == RowsOf(rows, u, c)
        RECURSIVE Sum(_)
        Sum(S) == IF S = {} THEN 0
                  ELSE LET r == CHOOSE x \in S : TRUE
                       IN  CopiesIn(r, rows) + Sum(S \ {r})
    IN  Sum(held)

\* (mutant) a user_styles table without the unique index
NoUniqueIndex(rows, u, c) == TRUE

\* the unique index user_styles_userId_styleCardId_key admits the insert
UniqueUserStyleOk(rows, u, c) == RowCount(rows, u, c) = 0

\* tx.userStyle.create: the row is inserted, or the unique index rejects it
\* with P2002
userStyleCreate(db, u, c) ==
    IF UniqueUserStyleOk(db.userStyles, u, c)
    THEN [error |-> NoError,
          db |-> [db EXCEPT !.userStyles = @ (+) SetToBag({NewUserStyle(u, c)})]]
    ELSE [error |-> "P2002", db |-> db]

\* every userStyle.create of the Promise.all, in the order they were issued
RECURSIVE createUserStyles(_, _, _, _)
createUserStyles(db, u, cards, i) ==
    IF i > Len(cards) THEN [error |-> NoError, db |-> db]
    ELSE LET one == userStyleCreate(db, u, cards[i])
         IN  IF one.error # NoError THEN one
             ELSE createUserStyles(one.db, u, cards, i + 1)

\* (mutant) the writes made before the body threw are kept
TransactionNoRollback(before, attempt) == attempt.db

\* prisma.$transaction: the writes of a body that threw are rolled back
Transaction(before, attempt) ==
    IF attempt.error = NoError THEN attempt.db ELSE before

\* the tables of the tournaments, of the pre-orders and of the matches
sideTables == <<tournaments, tournamentEntries, preOrders, matches>>

\* the variables no pack or marketplace handler writes (no handler but
\* register and login signs a token)
otherVars == <<users, styleCards, packCards, returned, sideTables, tokens>>

\* authenticateToken (middleware/auth): the bearer token names a user that
\* exists and whose email is verified
authenticateToken(u) == u \in DOMAIN users /\ users[u].isVerified

-----------------------------------------------------------------------------
(* POST /packs/purchase (packs.js:77-160)                                  *)

packPurchaseValid(packType, quantity) ==
    /\ packType \in PackTypeNames
    /\ quantity >= MIN_QUANTITY
    /\ quantity <= MAX_QUANTITY

PackTransaction(u, packConfig, quantity) ==
    [userId |-> u, type |-> "PACK_PURCHASE",
     amount |-> packConfig.price * quantity,
     description |-> <<quantity, packConfig.name>>, status |-> "COMPLETED"]

\* the body of the transaction, run on `db` with the draw `drawn`
packPurchaseBody(db, u, packConfig, quantity, drawn) ==
    LET db1 == [db EXCEPT !.transactions =
                    @ (+) SetToBag({PackTransaction(u, packConfig, quantity)})]
    IN  IF drawn.error # NoError
        THEN [error |-> "NO_CARDS", rarity |-> drawn.error, db |-> db1]
        ELSE LET made == createUserStyles(db1, u, drawn.cards, 1)
             IN  IF made.error # NoError
                 THEN [error |-> made.error, rarity |-> NoError, db |-> made.db]
                 ELSE [error |-> NoError, rarity |-> NoError,
                       db |-> [made.db EXCEPT
                                 !.userProfiles[u].packsPurchased = @ + quantity]]

HasDuplicates(cards) ==
    \E i, j \in 1..Len(cards) : i < j /\ cards[i] = cards[j]

HoldsAny(rows, u, cards) ==
    \E i \in 1..Len(cards) : RowCount(rows, u, cards[i]) > 0

\* the response to a request for `packType`: the status and the error, the
\* transaction record and the number of cards returned on success, and what
\* the draw was like (duplicate: a card drawn twice; reacquired: a drawn
\* card the user already held)
PackResponse(u, packType, status, code, rarity, record, drawn) ==
    [op |-> "packPurchase", packType |-> packType, status |-> status,
     code |-> code, rarity |-> rarity,
     transaction |-> IF status = 200 THEN <<record>> ELSE <<>>,
     cards |-> IF status = 200 THEN Len(drawn) ELSE 0,
     duplicate |-> HasDuplicates(drawn),
     reacquired |-> HoldsAny(userStyles, u, drawn)]

SetDb(db) ==
    /\ transactions' = db.transactions
    /\ userStyles' = db.userStyles
    /\ userProfiles' = db.userProfiles
    /\ listings' = db.listings

PackPurchaseInvalid(u, packType, quantity) ==
    /\ authenticateToken(u)
    /\ ~packPurchaseValid(packType, quantity)
    /\ last' = PackResponse(u, packType, 400, "VALIDATION", NoError, <<>>, <<>>)
    /\ UNCHANGED <<userStyles, transactions, userProfiles, listings, now,
                   reqs, otherVars>>

PackPurchase(u, packType, quantity) ==
    /\ authenticateToken(u)
    /\ packPurchaseValid(packType, quantity)
    /\ \E drawn \in allCardsOf(PACK_TYPES[packType], quantity, styleCards) :
          LET attempt == packPurchaseBody(Db, u, PACK_TYPES[packType],
                                          quantity, drawn)
          IN  /\ SetDb(Transaction(Db, attempt))
              /\ last' = PackResponse(u, packType,
                            CASE attempt.error = NoError -> 200
                              [] attempt.error = "P2002" -> 409
                              [] OTHER -> 500,
                            attempt.error, attempt.rarity,
                            PackTransaction(u, PACK_TYPES[packType], quantity),
                            drawn.cards)
    /\ UNCHANGED <<now, reqs, otherVars>>

-----------------------------------------------------------------------------
(* The marketplace (marketplace.js)                                        *)

NoTime == <<>>
NoUser == "null"

\* 30 * 24 * 60 * 60 * 1000 ms (marketplace.js:164), in seconds
THIRTY_DAYS == 30 * 24 * 60 * 60
\* body('price').isInt({ min: 100 })
MIN_PRICE == 100

(* listing.price * 0.95 in IEEE 754 double arithmetic.  The literal 0.95  *)
(* is the double 0x1E666666666666 * 2^-53; the exact product with an        *)
(* integer price below 2^15 is held in limbs of 16 bits, then as bits       *)
(* (least significant first), and rounded to 53 significant bits, ties to   *)
(* even.                                                                    *)
Limb == 65536
Mantissa095 == <<26214, 26214, 26214, 30>>
MantissaBits == 53

RECURSIVE MulLimbs(_, _, _, _)
MulLimbs(limbs, n, i, carry) ==
    IF i > Len(limbs)
    THEN <<carry>>
    ELSE LET x == limbs[i] * n + carry
         IN  <<x % Limb>> \o MulLimbs(limbs, n, i + 1, x \div Limb)

RECURSIVE BitsOf(_, _)
BitsOf(x, width) ==
    IF width = 0 THEN <<>> ELSE <<x % 2>> \o BitsOf(x \div 2, width - 1)

RECURSIVE LimbsToBits(_, _)
LimbsToBits(limbs, i) ==
    IF i > Len(limbs) THEN <<>>
    ELSE BitsOf(limbs[i], 16) \o LimbsToBits(limbs, i + 1)

RECURSIVE BitLength(_)
BitLength(bits) ==
    IF bits = <<>> THEN 0
    ELSE IF bits[Len(bits)] = 1 THEN Len(bits)
    ELSE BitLength(SubSeq(bits, 1, Len(bits) - 1))

RECURSIVE BitsToInt(_)
BitsToInt(bits) ==
    IF bits = <<>> THEN 0 ELSE bits[1] + 2 * BitsToInt(Tail(bits))

RECURSIVE Increment(_)
Increment(bits) ==
    IF bits = <<>> THEN <<1>>
    ELSE IF bits[1] = 0 THEN <<1>> \o Tail(bits)
    ELSE <<0>> \o Increment(Tail(bits))

\* price * 0.95 as a double: [int |-> its integer part, frac |-> whether it
\* has a fractional part]
Times095(price) ==
    LET all == LimbsToBits(MulLimbs(Mantissa095, price, 1, 0), 1)
        len == BitLength(all)
        drop == len - MantissaBits          \* the bits the rounding drops
        kept == SubSeq(all, drop + 1, len)
        half == drop > 0 /\ all[drop] = 1
        sticky == \E i \in 1..(drop - 1) : all[i] = 1
        up == half /\ (sticky \/ kept[1] = 1)
        rounded == IF up THEN Increment(kept) ELSE kept
        \* the double is rounded * 2^(drop - 53): its binary point lies
        \* MantissaBits - drop bits from the right
        point == MantissaBits - drop
    IN  [int |-> BitsToInt(SubSeq(rounded, point + 1, Len(rounded))),
         frac |-> \E i \in 1..point : rounded[i] = 1]

\* (mutant) Math.ceil in place of Math.floor
sellerAmountCeil(price) ==
    Times095(price).int + (IF Times095(price).frac THEN 1 ELSE 0)

\* Math.floor(listing.price * 0.95)
sellerAmount(price) == Times095(price).int

Respond(op, status, code) == [op |-> op, status |-> status, code |-> code]

\* a handler suspends at an await, resumes from one, or completes
CanStart == BagCardinality(reqs) < MaxInFlight
Suspend(h) == reqs' = reqs (+) SetToBag({h})
Resume(h, h2) == reqs' = (reqs (-) SetToBag({h})) (+) SetToBag({h2})
Complete(h) == reqs' = reqs (-) SetToBag({h})
At(pc) == {h \in BagToSet(reqs) : h.pc = pc}

ActiveListings(ls, seller, card) ==
    {i \in 1..Len(ls) : /\ ls[i].sellerId = seller
                        /\ ls[i].styleCardId = card
                        /\ ls[i].status = "ACTIVE"}

(* POST /marketplace/listings (marketplace.js:103-187) *)

\* the listings created and the creations under way
ListingsStarted ==
    Len(listings)
      + BagCardinality([h \in At("listCheck") \cup At("listCreate")
                          |-> CopiesIn(h, reqs)])

\* validation, then userStyle.findFirst({ id: userStyleId, userId }): the
\* request names the row (owner, card) or a row that does not exist
CreateListingBegin(u, owner, card, price) ==
    /\ authenticateToken(u)
    /\ CanStart
    /\ IF price < MIN_PRICE
       THEN /\ last' = Respond("createListing", 400, "VALIDATION")
            /\ reqs' = reqs
       ELSE IF owner # u \/ RowCount(userStyles, owner, card) = 0
       THEN /\ last' = Respond("createListing", 404, "STYLE_NOT_OWNED")
            /\ reqs' = reqs
       ELSE /\ Suspend([pc |-> "listCheck", user |-> u, card |-> card,
                        price |-> price])
            /\ last' = last
    /\ UNCHANGED <<userStyles, transactions, userProfiles, listings, now,
                   otherVars>>

\* marketplaceListing.findFirst({ styleCardId, sellerId, status: 'ACTIVE' })
CreateListingCheck(h) ==
    /\ h.pc = "listCheck"
    /\ IF ActiveListings(listings, h.user, h.card) # {}
       THEN /\ last' = Respond("createListing", 409, "ALREADY_LISTED")
            /\ Complete(h)
       ELSE /\ Resume(h, [h EXCEPT !.pc = "listCreate"])
            /\ last' = last
    /\ UNCHANGED <<userStyles, transactions, userProfiles, listings, now,
                   otherVars>>

NewListing(seller, card, price, t) ==
    [sellerId |-> seller, buyerId |-> NoUser, styleCardId |-> card,
     price |-> price, status |-> "ACTIVE", listedAt |-> t, soldAt |-> NoTime,
     expiresAt |-> t + THIRTY_DAYS]

\* marketplaceListing.create
CreateListingCreate(h) ==
    /\ h.pc = "listCreate"
    /\ listings' = Append(listings, NewListing(h.user, h.card, h.price, now))
    /\ last' = Respond("createListing", 201, NoError)
    /\ Complete(h)
    /\ UNCHANGED <<userStyles, transactions, userProfiles, now, otherVars>>

(* POST /marketplace/listings/:id/purchase (marketplace.js:190-314) *)

\* findUnique and the checks made on the row it returned
PurchaseBegin(u, id) ==
    /\ authenticateToken(u)
    /\ CanStart
    /\ IF id \notin 1..Len(listings)
       THEN /\ last' = Respond("purchase", 404, "LISTING_NOT_FOUND")
            /\ reqs' = reqs
       ELSE IF listings[id].status # "ACTIVE"
       THEN /\ last' = Respond("purchase", 400, "LISTING_INACTIVE")
            /\ reqs' = reqs
       ELSE IF listings[id].sellerId = u
       THEN /\ last' = Respond("purchase", 400, "SELF_PURCHASE")
            /\ reqs' = reqs
       ELSE IF listings[id].expiresAt < now
       THEN /\ Suspend([pc |-> "expire", user |-> u, id |-> id])
            /\ last' = last
       ELSE /\ Suspend([pc |-> "purchaseTx", user |-> u, id |-> id,
                        listing |-> listings[id]])
            /\ last' = last
    /\ UNCHANGED <<userStyles, transactions, userProfiles, listings, now,
                   otherVars>>

\* marketplaceListing.update({ where: { id }, data: { status: 'EXPIRED' } })
PurchaseExpire(h) ==
    /\ h.pc = "expire"
    /\ listings' = [listings EXCEPT ![h.id].status = "EXPIRED"]
    /\ last' = Respond("purchase", 400, "LISTING_EXPIRED")
    /\ Complete(h)
    /\ UNCHANGED <<userStyles, transactions, userProfiles, now, otherVars>>

MarketTransaction(u, type, amount) ==
    [userId |-> u, type |-> type, amount |-> amount, description |-> <<>>,
     status |-> "COMPLETED"]

\* tx.userStyle.deleteMany({ where: { userId, styleCardId } })
userStyleDeleteMany(rows, u, c) ==
    LET keep == {r \in BagToSet(rows) : ~(r.userId = u /\ r.styleCardId = c)}
    IN  [r \in keep |-> CopiesIn(r, rows)]

\* (mutant) the purchase without the deleteMany of the seller's rows
purchaseBodyKeepSeller(db, buyer, id, listing, t) ==
    LET db1 == [db EXCEPT !.listings[id].status = "SOLD",
                          !.listings[id].buyerId = buyer,
                          !.listings[id].soldAt = <<t>>]
        db2 == [db1 EXCEPT !.transactions = @ (+) SetToBag(
                   {MarketTransaction(buyer, "MARKETPLACE_BUY", listing.price)})]
        db3 == [db2 EXCEPT !.transactions = @ (+) SetToBag(
                   {MarketTransaction(listing.sellerId, "MARKETPLACE_SELL",
                                      sellerAmount(listing.price))})]
    IN  userStyleCreate(db3, buyer, listing.styleCardId)

\* the body of the purchase transaction (marketplace.js:242-301), run on
\* `db` for the listing row `listing` read before it
purchaseBody(db, buyer, id, listing, t) ==
    LET db1 == [db EXCEPT !.listings[id].status = "SOLD",
                          !.listings[id].buyerId = buyer,
                          !.listings[id].soldAt = <<t>>]
        db2 == [db1 EXCEPT !.transactions = @ (+) SetToBag(
                   {MarketTransaction(buyer, "MARKETPLACE_BUY", listing.price)})]
        db3 == [db2 EXCEPT !.transactions = @ (+) SetToBag(
                   {MarketTransaction(listing.sellerId, "MARKETPLACE_SELL",
                                      sellerAmount(listing.price))})]
        made == userStyleCreate(db3, buyer, listing.styleCardId)
    IN  IF made.error # NoError THEN made
        ELSE [error |-> NoError,
              db |-> [made.db EXCEPT !.userStyles =
                        userStyleDeleteMany(@, listing.sellerId,
                                            listing.styleCardId)]]

\* (mutant) the writes of a purchase that failed are kept
PurchaseCommitNoRollback(h) ==
    /\ h.pc = "purchaseTx"
    /\ LET attempt == purchaseBody(Db, h.user, h.id, h.listing, now)
       IN  /\ SetDb(attempt.db)
           /\ last' = Respond("purchase",
                              IF attempt.error = NoError THEN 200 ELSE 409,
                              attempt.error)
    /\ Complete(h)
    /\ UNCHANGED <<now, otherVars>>

PurchaseCommit(h) ==
    /\ h.pc = "purchaseTx"
    /\ LET attempt == purchaseBody(Db, h.user, h.id, h.listing, now)
       IN  /\ SetDb(Transaction(Db, attempt))
           /\ last' = Respond("purchase",
                              IF attempt.error = NoError THEN 200 ELSE 409,
                              attempt.error)
    /\ Complete(h)
    /\ UNCHANGED <<now, otherVars>>

(* DELETE /marketplace/listings/:id (marketplace.js:317-350) *)

\* marketplaceListing.findFirst({ id, sellerId, status: 'ACTIVE' })
CancelBegin(u, id) ==
    /\ authenticateToken(u)
    /\ CanStart
    /\ IF \/ id \notin 1..Len(listings)
          \/ listings[id].sellerId # u
          \/ listings[id].status # "ACTIVE"
       THEN /\ last' = Respond("cancel", 404, "LISTING_NOT_FOUND")
            /\ reqs' = reqs
       ELSE /\ Suspend([pc |-> "cancel", user |-> u, id |-> id])
            /\ last' = last
    /\ UNCHANGED <<userStyles, transactions, userProfiles, listings, now,
                   otherVars>>

\* marketplaceListing.update({ where: { id }, data: { status: 'CANCELLED' } })
CancelUpdate(h) ==
    /\ h.pc = "cancel"
    /\ listings' = [listings EXCEPT ![h.id].status = "CANCELLED"]
    /\ last' = Respond("cancel", 200, NoError)
    /\ Complete(h)
    /\ UNCHANGED <<userStyles, transactions, userProfiles, now, otherVars>>

(* GET /marketplace/listings (marketplace.js:15-100) and                   *)
(* GET /marketplace/user/activity (marketplace.js:353-416)                 *)

AnyRarity == "any"

\* what a read returns of the listing `id`
ListingView(ls, id) == [id |-> id, status |-> ls[id].status]

ListResponse(op, ids) ==
    [op |-> op, status |-> 200, code |-> NoError,
     listings |-> {ListingView(listings, id) : id \in ids}]

\* findMany({ where: { status: 'ACTIVE', styleCard: { rarity } } }): the
\* page of the ACTIVE listings; the handler writes nothing
GetListings(rarity) ==
    /\ last' = ListResponse("getListings",
                   {id \in 1..Len(listings) :
                       /\ listings[id].status = "ACTIVE"
                       /\ \/ rarity = AnyRarity
                          \/ styleCards[listings[id].styleCardId].rarity
                                = rarity})
    /\ UNCHANGED <<userStyles, transactions, userProfiles, listings, now,
                   reqs, otherVars>>

ActivityTypes == {"all", "selling", "buying"}

\* findMany over the listings the user sells or has bought, whatever their
\* status; the handler writes nothing
GetUserActivity(u, type) ==
    /\ authenticateToken(u)
    /\ last' = ListResponse("getUserActivity",
                   {id \in 1..Len(listings) :
                       CASE type = "selling" -> listings[id].sellerId = u
                         [] type = "buying" -> listings[id].buyerId = u
                         [] OTHER -> \/ listings[id].sellerId = u
                                     \/ listings[id].buyerId = u})
    /\ UNCHANGED <<userStyles, transactions, userProfiles, listings, now,
                   reqs, otherVars>>

\* time passes
TickStep == 31 * 24 * 60 * 60

Tick ==
    /\ now < MaxTicks * TickStep
    /\ now' = now + TickStep
    /\ UNCHANGED <<userStyles, transactions, userProfiles, listings, reqs,
                   last, otherVars>>

-----------------------------------------------------------------------------
(* POST /packs/open/:transactionId (packs.js:163-211)                      *)

NoTransaction == [type |-> "none"]

\* (mutant) opening the pack is what grants its cards: the reveal inserts a
\* row of the first card of the catalogue
OpenPackGranting(u, transaction) ==
    /\ authenticateToken(u)
    /\ last' = Respond("openPack", 200, NoError)
    /\ userStyles' = userStyles (+)
            SetToBag({NewUserStyle(u, CHOOSE c \in DOMAIN styleCards : TRUE)})
    /\ UNCHANGED <<transactions, userProfiles, listings, now, reqs,
                   otherVars>>

\* transaction.findFirst({ id, userId, type: 'PACK_PURCHASE', status:
\* 'COMPLETED' }), then a read of the user's rows by creation time (a time
\* the rows of the model do not keep): two reads and no write
OpenPack(u, transaction) ==
    /\ authenticateToken(u)
    /\ last' = IF /\ transaction \in BagToSet(transactions)
                  /\ transaction.userId = u
                  /\ transaction.type = "PACK_PURCHASE"
                  /\ transaction.status = "COMPLETED"
               THEN Respond("openPack", 200, NoError)
               ELSE Respond("openPack", 404, "INVALID_TRANSACTION")
    /\ UNCHANGED <<userStyles, transactions, userProfiles, listings, now,
                   reqs, otherVars>>

-----------------------------------------------------------------------------
(* POST /tournaments/:id/enter (tournaments routes, lines 118-218)         *)

\* maxEntries of a tournament without a limit (null, falsy as 0 is)
NoMaxEntries == 0

\* the tournaments: no route creates or changes them, the rows are put in
\* the table from outside
Tournaments ==
    [t1 |-> [status |-> "UPCOMING", maxEntries |-> 1, entryFee |-> 500],
     t2 |-> [status |-> "UPCOMING", maxEntries |-> NoMaxEntries,
             entryFee |-> 0],
     t3 |-> [status |-> "ACTIVE", maxEntries |-> NoMaxEntries,
             entryFee |-> 500]]

TournamentEntry(u, t) == [userId |-> u, tournamentId |-> t]

\* the entries of a tournament, with their copies
EntriesOf(entries, t) ==
    [e \in {x \in BagToSet(entries) : x.tournamentId = t} |->
        CopiesIn(e, entries)]

EntryCount(entries, u, t) == CopiesIn(TournamentEntry(u, t), entries)

\* (mutant) a tournament_entries table without the unique index
NoEntryIndex(entries, u, t) == TRUE

\* the unique index tournament_entries_userId_tournamentId_key admits the
\* insert
UniqueEntryOk(entries, u, t) == EntryCount(entries, u, t) = 0

EntryTransaction(u, t) ==
    [userId |-> u, type |-> "TOURNAMENT_ENTRY",
     amount |-> tournaments[t].entryFee, description |-> <<"Entry fee", t>>,
     status |-> "COMPLETED"]

\* tournament.findUnique with the count of its entries, and the checks on
\* what was read
EnterBegin(u, t) ==
    /\ authenticateToken(u)
    /\ CanStart
    /\ IF t \notin DOMAIN tournaments
       THEN /\ last' = Respond("enter", 404, "TOURNAMENT_NOT_FOUND")
            /\ reqs' = reqs
       ELSE IF tournaments[t].status # "UPCOMING"
       THEN /\ last' = Respond("enter", 400, "TOURNAMENT_NOT_OPEN")
            /\ reqs' = reqs
       ELSE IF /\ tournaments[t].maxEntries # NoMaxEntries
               /\ BagCardinality(EntriesOf(tournamentEntries, t))
                    >= tournaments[t].maxEntries
       THEN /\ last' = Respond("enter", 400, "TOURNAMENT_FULL")
            /\ reqs' = reqs
       ELSE /\ Suspend([pc |-> "enterCheck", user |-> u, tournament |-> t])
            /\ last' = last
    /\ UNCHANGED <<users, styleCards, userStyles, transactions,
                   userProfiles, listings, now, packCards, returned,
                   sideTables, tokens>>

\* tournamentEntry.findUnique({ userId_tournamentId })
EnterCheck(h) ==
    /\ h.pc = "enterCheck"
    /\ IF EntryCount(tournamentEntries, h.user, h.tournament) > 0
       THEN /\ last' = Respond("enter", 409, "ALREADY_ENTERED")
            /\ Complete(h)
       ELSE /\ Resume(h, [h EXCEPT !.pc = "enterCommit"])
            /\ last' = last
    /\ UNCHANGED <<users, styleCards, userStyles, transactions,
                   userProfiles, listings, now, packCards, returned,
                   sideTables, tokens>>

\* the transaction: the fee record and the entry are created together; the
\* unique index on (userId, tournamentId) rejects a second entry with P2002
\* and the fee record is rolled back
EnterCommit(h) ==
    /\ h.pc = "enterCommit"
    /\ IF ~UniqueEntryOk(tournamentEntries, h.user, h.tournament)
       THEN /\ last' = Respond("enter", 409, "P2002")
            /\ UNCHANGED <<transactions, tournamentEntries>>
       ELSE /\ transactions' = transactions (+)
                    SetToBag({EntryTransaction(h.user, h.tournament)})
            /\ tournamentEntries' = tournamentEntries (+)
                    SetToBag({TournamentEntry(h.user, h.tournament)})
            /\ last' = Respond("enter", 200, NoError)
    /\ Complete(h)
    /\ UNCHANGED <<users, styleCards, userStyles, userProfiles, listings,
                   now, packCards, returned, tournaments, preOrders, matches, tokens>>

-----------------------------------------------------------------------------
(* POST /preorders/create and DELETE /preorders/:preOrderId (pre-order     *)
(* routes, lines 53-176 and 288-345)                                       *)

EARLY_BIRD_PRICE == 1200
MAX_PACKS_PER_USER == 10
ONE_DAY == 24 * 60 * 60

\* a wallet address as the validators see it: its prefix, the number of
\* characters after it, whether they are all hexadecimal digits
Wallet(name) == [prefix |-> "0x", digits |-> 40, hex |-> TRUE, name |-> name]

NoWallet == [prefix |-> "", digits |-> 0, hex |-> FALSE, name |-> "null"]

\* matches(/^0x[a-fA-F0-9]{40}$/)
walletMatches(w) == w.prefix = "0x" /\ w.digits = 40 /\ w.hex

\* the clock of the model starts one tick before the end of the early
\* bird period
EARLY_BIRD_END_DATE == 31 * ONE_DAY

RECURSIVE totalPacks(_, _, _)
\* the packCount of every pre-order of the user, whatever its status
totalPacks(orders, u, i) ==
    IF i > Len(orders) THEN 0
    ELSE (IF orders[i].userId = u THEN orders[i].packCount ELSE 0)
            + totalPacks(orders, u, i + 1)

\* the pre-orders created and the creations under way
PreOrdersStarted ==
    Len(preOrders)
      + BagCardinality([h \in At("preFind") \cup At("preCreate")
                          |-> CopiesIn(h, reqs)])

PreOrderTransaction(u, id, totalAmount, packCount) ==
    [userId |-> u, type |-> "PACK_PREORDER", amount |-> totalAmount,
     description |-> <<"Pre-order", packCount>>, status |-> "PENDING",
     preOrderId |-> id]

\* the transaction rows whose metadata name the pre-order get the status
SetPreOrderTransactions(rows, id, status) ==
    LET Of(r) == "preOrderId" \in DOMAIN r /\ r.preOrderId = id
        kept == [r \in {x \in BagToSet(rows) : ~Of(x)} |-> CopiesIn(r, rows)]
        RECURSIVE Put(_, _)
        Put(S, bag) ==
            IF S = {} THEN bag
            ELSE LET r == CHOOSE x \in S : TRUE
                     one == [x \in {[r EXCEPT !.status = status]} |->
                                CopiesIn(r, rows)]
                 IN  Put(S \ {r}, bag (+) one)
    IN  Put({x \in BagToSet(rows) : Of(x)}, kept)

\* the validators, the price, the early bird period, then
\* preOrder.findMany({ userId })
PreOrderBegin(u, walletAddress, packCount, totalAmount) ==
    /\ authenticateToken(u)
    /\ CanStart
    /\ IF \/ ~walletMatches(walletAddress)
          \/ packCount < 1 \/ packCount > MAX_PACKS_PER_USER
          \/ totalAmount < EARLY_BIRD_PRICE
       THEN /\ last' = Respond("createPreOrder", 400, "VALIDATION")
            /\ reqs' = reqs
       ELSE IF totalAmount # packCount * EARLY_BIRD_PRICE
       THEN /\ last' = Respond("createPreOrder", 400, "INVALID_AMOUNT")
            /\ reqs' = reqs
       ELSE IF ~(now < EARLY_BIRD_END_DATE)
       THEN /\ last' = Respond("createPreOrder", 400, "EARLY_BIRD_EXPIRED")
            /\ reqs' = reqs
       ELSE /\ Suspend([pc |-> "preFind", user |-> u,
                        walletAddress |-> walletAddress,
                        packCount |-> packCount,
                        totalAmount |-> totalAmount, id |-> 0])
            /\ last' = last
    /\ UNCHANGED <<users, styleCards, userStyles, transactions,
                   userProfiles, listings, now, packCards, returned,
                   sideTables, tokens>>

\* what findMany read, summed and compared with the limit
PreOrderFind(h) ==
    /\ h.pc = "preFind"
    /\ IF totalPacks(preOrders, h.user, 1) + h.packCount > MAX_PACKS_PER_USER
       THEN /\ last' = Respond("createPreOrder", 400, "MAX_PACKS_EXCEEDED")
            /\ Complete(h)
       ELSE /\ Resume(h, [h EXCEPT !.pc = "preCreate"])
            /\ last' = last
    /\ UNCHANGED <<users, styleCards, userStyles, transactions,
                   userProfiles, listings, now, packCards, returned,
                   sideTables, tokens>>

\* preOrder.create: the order is PENDING
PreOrderCreate(h) ==
    /\ h.pc = "preCreate"
    /\ preOrders' = Append(preOrders,
            [userId |-> h.user, walletAddress |-> h.walletAddress,
             packCount |-> h.packCount, totalAmount |-> h.totalAmount,
             status |-> "PENDING", createdAt |-> now])
    /\ Resume(h, [h EXCEPT !.pc = "preTransaction",
                           !.id = Len(preOrders) + 1])
    /\ UNCHANGED <<users, styleCards, userStyles, transactions,
                   userProfiles, listings, now, last, packCards, returned,
                   tournaments, tournamentEntries, matches, tokens>>

\* transaction.create: the record is PENDING
PreOrderRecord(h) ==
    /\ h.pc = "preTransaction"
    /\ transactions' = transactions (+)
            SetToBag({PreOrderTransaction(h.user, h.id, h.totalAmount,
                                          h.packCount)})
    /\ Resume(h, [h EXCEPT !.pc = "preFounder"])
    /\ UNCHANGED <<users, styleCards, userStyles, userProfiles, listings,
                   now, last, packCards, returned, sideTables, tokens>>

\* userProfile.update: the user becomes a founder
PreOrderFounder(h) ==
    /\ h.pc = "preFounder"
    /\ userProfiles' = [userProfiles EXCEPT ![h.user].isFounder = TRUE,
                                            ![h.user].founderTier = "GENESIS"]
    /\ Resume(h, [h EXCEPT !.pc = "preConfirm"])
    /\ UNCHANGED <<users, styleCards, userStyles, transactions, listings,
                   now, last, packCards, returned, sideTables, tokens>>

\* preOrder.update({ id }): CONFIRMED
PreOrderConfirm(h) ==
    /\ h.pc = "preConfirm"
    /\ preOrders' = [preOrders EXCEPT ![h.id].status = "CONFIRMED"]
    /\ Resume(h, [h EXCEPT !.pc = "preComplete"])
    /\ UNCHANGED <<users, styleCards, userStyles, transactions,
                   userProfiles, listings, now, last, packCards, returned,
                   tournaments, tournamentEntries, matches, tokens>>

\* transaction.update({ id }): COMPLETED, and the response
PreOrderComplete(h) ==
    /\ h.pc = "preComplete"
    /\ transactions' = SetPreOrderTransactions(transactions, h.id, "COMPLETED")
    /\ last' = Respond("createPreOrder", 201, NoError)
    /\ Complete(h)
    /\ UNCHANGED <<users, styleCards, userStyles, userProfiles, listings,
                   now, packCards, returned, sideTables, tokens>>

\* preOrder.findFirst({ id, userId, status: 'CONFIRMED' }) and the window
\* of 24 hours
CancelPreOrderBegin(u, id) ==
    /\ authenticateToken(u)
    /\ CanStart
    /\ IF \/ id \notin 1..Len(preOrders)
          \/ preOrders[id].userId # u
          \/ preOrders[id].status # "CONFIRMED"
       THEN /\ last' = Respond("cancelPreOrder", 404, "PREORDER_NOT_FOUND")
            /\ reqs' = reqs
       ELSE IF now - preOrders[id].createdAt > ONE_DAY
       THEN /\ last' = Respond("cancelPreOrder", 400, "CANCELLATION_EXPIRED")
            /\ reqs' = reqs
       ELSE /\ Suspend([pc |-> "cancelPreOrder", user |-> u, id |-> id])
            /\ last' = last
    /\ UNCHANGED <<users, styleCards, userStyles, transactions,
                   userProfiles, listings, now, packCards, returned,
                   sideTables, tokens>>

\* preOrder.update({ id }): CANCELLED
CancelPreOrderUpdate(h) ==
    /\ h.pc = "cancelPreOrder"
    /\ preOrders' = [preOrders EXCEPT ![h.id].status = "CANCELLED"]
    /\ Resume(h, [h EXCEPT !.pc = "refundPreOrder"])
    /\ UNCHANGED <<users, styleCards, userStyles, transactions,
                   userProfiles, listings, now, last, packCards, returned,
                   tournaments, tournamentEntries, matches, tokens>>

\* transaction.updateMany({ userId, metadata.preOrderId }): REFUNDED, and
\* the response
CancelPreOrderRefund(h) ==
    /\ h.pc = "refundPreOrder"
    /\ transactions' = SetPreOrderTransactions(transactions, h.id, "REFUNDED")
    /\ last' = Respond("cancelPreOrder", 200, NoError)
    /\ Complete(h)
    /\ UNCHANGED <<users, styleCards, userStyles, userProfiles, listings,
                   now, packCards, returned, sideTables, tokens>>

-----------------------------------------------------------------------------
(* PUT /users/profile (users routes, lines 84-119)                         *)

\* a field the body of the request does not hold
Absent == "undefined"

\* a profile as registration creates it: the display name is the username
NewProfile(u) ==
    [packsPurchased |-> 0, totalPoints |-> 0, displayName |-> u,
     country |-> "", isFounder |-> FALSE, founderTier |-> "null"]

\* the validators, then userProfile.update with the fields of the body
UpdateProfile(u, displayName, country) ==
    /\ authenticateToken(u)
    /\ IF \/ displayName # Absent /\ (Len(displayName) < 1 \/ Len(displayName) > 50)
          \/ country # Absent /\ Len(country) # 2
       THEN /\ last' = Respond("updateProfile", 400, "VALIDATION")
            /\ userProfiles' = userProfiles
       ELSE /\ userProfiles' =
                [userProfiles EXCEPT
                    ![u].displayName =
                        IF displayName = Absent THEN @ ELSE displayName,
                    ![u].country = IF country = Absent THEN @ ELSE country]
            /\ last' = Respond("updateProfile", 200, NoError)
    /\ UNCHANGED <<users, styleCards, userStyles, transactions, listings,
                   now, reqs, packCards, returned, sideTables, tokens>>

-----------------------------------------------------------------------------
(* POST /auth/connect-wallet (auth routes, lines 79-106) and               *)
(* AuthService.connectWallet (authService.js:53-69)                        *)

HoldersOf(w) == {x \in DOMAIN users : users[x].walletAddress = w}

\* the validator, then user.findUnique({ walletAddress })
ConnectWalletBegin(u, walletAddress) ==
    /\ authenticateToken(u)
    /\ CanStart
    /\ IF ~walletMatches(walletAddress)
       THEN /\ last' = Respond("connectWallet", 400, "VALIDATION")
            /\ reqs' = reqs
       ELSE IF HoldersOf(walletAddress) \ {u} # {}
       THEN /\ last' = Respond("connectWallet", 409, "WALLET_CONNECTED")
            /\ reqs' = reqs
       ELSE /\ Suspend([pc |-> "connectWallet", user |-> u,
                        walletAddress |-> walletAddress])
            /\ last' = last
    /\ UNCHANGED <<users, styleCards, userStyles, transactions,
                   userProfiles, listings, now, packCards, returned,
                   sideTables, tokens>>

\* user.update({ id }, { walletAddress }): the unique index on walletAddress
\* rejects an address another user took in between with P2002
ConnectWalletUpdate(h) ==
    /\ h.pc = "connectWallet"
    /\ IF HoldersOf(h.walletAddress) \ {h.user} # {}
       THEN /\ last' = Respond("connectWallet", 409, "P2002")
            /\ users' = users
       ELSE /\ users' = [users EXCEPT ![h.user].walletAddress = h.walletAddress]
            /\ last' = Respond("connectWallet", 200, NoError)
    /\ Complete(h)
    /\ UNCHANGED <<styleCards, userStyles, transactions, userProfiles,
                   listings, now, packCards, returned, sideTables, tokens>>

-----------------------------------------------------------------------------
(* FootballApiService.analyzePlayerPerformance (authService.js:219-272)    *)

\* null, a statistic the football API left out: a value apart from every
\* count
Null == 0 - 1

\* player.statistics[0] is missing
NoStatistics == [statistics |-> "none"]

\* the number a JavaScript comparison or product makes of a statistic
ToNumber(v) == IF v = Null THEN 0 ELSE v

\* (mutant) a threshold that is not strict
GreaterOrEqual(v, n) == ToNumber(v) >= n

\* v > n
Greater(v, n) == ToNumber(v) > n

\* v || 0
OrZero(v) == IF v = Null \/ v = 0 THEN 0 ELSE v

ACCURACY_THRESHOLD == 85
DRIBBLES_THRESHOLD == 3
DEFENSIVE_THRESHOLD == 5
KEY_PASSES_THRESHOLD == 3
GOAL_POINTS == 10
SPEEDSTER_POINTS == 5
DEFENSIVE_POINTS == 2
ASSIST_POINTS == 8
KEY_PASS_POINTS == 2

\* an activation; the confidence is in hundredths
Activation(styleName, points, confidence) ==
    [styleName |-> styleName, points |-> points, confidence |-> confidence]

defensiveActions(stats) ==
    OrZero(stats.tackles.total) + OrZero(stats.tackles.interceptions)

\* (mutant) the rules as an else-if chain: the first rule that matches wins
analyzeFirstMatch(stats) ==
    IF stats = NoStatistics THEN <<>>
    ELSE IF Greater(stats.goals.total, 0)
    THEN <<Activation("Clinical Finisher",
                      ToNumber(stats.goals.total) * GOAL_POINTS, 90)>>
    ELSE IF /\ Greater(stats.passes.accuracy, ACCURACY_THRESHOLD)
            /\ Greater(stats.dribbles.success, DRIBBLES_THRESHOLD)
    THEN <<Activation("Speedster", SPEEDSTER_POINTS, 70)>>
    ELSE IF Greater(defensiveActions(stats), DEFENSIVE_THRESHOLD)
    THEN <<Activation("Ball Winner",
                      defensiveActions(stats) * DEFENSIVE_POINTS, 80)>>
    ELSE IF \/ Greater(stats.goals.assists, 0)
            \/ Greater(stats.passes.key, KEY_PASSES_THRESHOLD)
    THEN <<Activation("Playmaker",
                      ToNumber(stats.goals.assists) * ASSIST_POINTS
                        + ToNumber(stats.passes.key) * KEY_PASS_POINTS, 85)>>
    ELSE <<>>

\* the activations pushed for the statistics of one player, in the order
\* of the four rules
analyzePlayerPerformance(stats) ==
    IF stats = NoStatistics THEN <<>>
    ELSE
      (IF Greater(stats.goals.total, 0)
       THEN <<Activation("Clinical Finisher",
                         ToNumber(stats.goals.total) * GOAL_POINTS, 90)>>
       ELSE <<>>)
      \o
      (IF /\ Greater(stats.passes.accuracy, ACCURACY_THRESHOLD)
          /\ Greater(stats.dribbles.success, DRIBBLES_THRESHOLD)
       THEN <<Activation("Speedster", SPEEDSTER_POINTS, 70)>>
       ELSE <<>>)
      \o
      (IF Greater(defensiveActions(stats), DEFENSIVE_THRESHOLD)
       THEN <<Activation("Ball Winner",
                         defensiveActions(stats) * DEFENSIVE_POINTS, 80)>>
       ELSE <<>>)
      \o
      (IF \/ Greater(stats.goals.assists, 0)
          \/ Greater(stats.passes.key, KEY_PASSES_THRESHOLD)
       THEN <<Activation("Playmaker",
                         ToNumber(stats.goals.assists) * ASSIST_POINTS
                           + ToNumber(stats.passes.key) * KEY_PASS_POINTS, 85)>>
       ELSE <<>>)

(* FootballApiService.processMatchForActivations (authService.js:187-217) *)
(* and POST /api/process-matches (index.js:47-70)                           *)

\* what fetchPlayerStats returns: the players' lines of the match, or null
\* when the request failed
PlayerStats(players) == [fetched |-> TRUE, players |-> players]

NoPlayerStats == [fetched |-> FALSE, players |-> <<>>]

\* what processMatchForActivations returns: a list of activations, or
\* nothing at all (undefined)
Returns(activations) == [undefined |-> FALSE, activations |-> activations]

Undefined == [undefined |-> TRUE, activations |-> <<>>]

RECURSIVE analyzePlayers(_, _)
analyzePlayers(players, i) ==
    IF i > Len(players) THEN <<>>
    ELSE analyzePlayerPerformance(players[i])
            \o analyzePlayers(players, i + 1)

\* the activations of every player of the match; `matchUpdated` tells
\* whether prisma.match.update went through (no migration creates a table
\* of matches): when it throws, the catch returns the empty list
processMatchForActivations(playerStats, matchUpdated) ==
    IF ~playerStats.fetched THEN Undefined
    ELSE IF matchUpdated
         THEN Returns(analyzePlayers(playerStats.players, 1))
         ELSE Returns(<<>>)

\* a match as the fixtures API lists it, with the statistics the API
\* answers for it
LiveMatch(id, status, playerStats) ==
    [id |-> id, status |-> status, playerStats |-> playerStats]

\* saveMatch on every match of the list: prisma.match.upsert writes the
\* status and resets processed, on a row that exists as on a new one
RECURSIVE saveMatches(_, _, _)
saveMatches(table, live, i) ==
    IF i > Len(live) THEN table
    ELSE saveMatches(
            [id \in DOMAIN table \cup {live[i].id} |->
                IF id = live[i].id
                THEN [status |-> live[i].status, processed |-> FALSE]
                ELSE table[id]],
            live, i + 1)

\* the loop of the handler from the match `i` on: every finished match
\* (status FT) is processed, its row is marked processed when the update
\* goes through, and its activations are counted; activations.length of a
\* call that returned nothing throws and ends the loop
RECURSIVE processLoop(_, _, _, _)
processLoop(table, live, i, dbUp) ==
    IF i > Len(live)
    THEN [table |-> table, calls |-> <<>>, total |-> 0, failed |-> FALSE]
    ELSE IF live[i].status # "FT"
    THEN processLoop(table, live, i + 1, dbUp)
    ELSE LET result == processMatchForActivations(live[i].playerStats, dbUp)
             call == [matchId |-> live[i].id, result |-> result]
         IN  IF result.undefined
             THEN [table |-> table, calls |-> <<call>>, total |-> 0,
                   failed |-> TRUE]
             ELSE LET marked ==
                          IF dbUp /\ live[i].id \in DOMAIN table
                          THEN [table EXCEPT ![live[i].id].processed = TRUE]
                          ELSE table
                      rest == processLoop(marked, live, i + 1, dbUp)
                  IN  [rest EXCEPT
                          !.calls = <<call>> \o @,
                          !.total = Len(result.activations) + @]

\* the handler on the list of the live matches: fetchLiveMatches saves
\* each of them, then the loop; `dbUp` tells whether the calls on the table
\* of matches go through (saveMatch swallows its error).  No table of the
\* exchange is written.
ProcessMatches(live, dbUp) ==
    LET saved == IF dbUp THEN saveMatches(matches, live, 1) ELSE matches
        run == processLoop(saved, live, 1, dbUp)
    IN  /\ matches' = run.table
        /\ returned' = [fn |-> "processMatchForActivations",
                        live |-> live, calls |-> run.calls]
        /\ last' = IF run.failed
                   THEN [op |-> "processMatches", status |-> 500,
                         code |-> "FAILED", matchesFound |-> 0,
                         activationsCreated |-> 0]
                   ELSE [op |-> "processMatches", status |-> 200,
                         code |-> NoError, matchesFound |-> Len(live),
                         activationsCreated |-> run.total]
        /\ UNCHANGED <<users, styleCards, userStyles, transactions,
                       userProfiles, listings, now, reqs, packCards,
                       tournaments, tournamentEntries, preOrders, tokens>>

\* the name of a card of the catalogue: the style cards of the seed, by
\* rarity and in its order; a card beyond the seed has another name
StyleNames ==
    [COMMON |-> <<"Clinical Finisher", "Speedster", "Ball Winner">>,
     RARE |-> <<"False 9">>,
     LEGENDARY |-> <<"Total Football">>,
     MYTHIC |-> <<"Game Changer">>]

cardName(id) ==
    IF id[2] <= Len(StyleNames[id[1]]) THEN StyleNames[id[1]][id[2]]
    ELSE "unnamed"

-----------------------------------------------------------------------------
(* getGameweek and getCurrentSeason (activations routes, lines 315-334)    *)

\* a date: the year, the month as Date.getMonth gives it (0 is January)
\* and the day of the month; the time of the day does not change the number
\* of whole weeks the function computes
Date(year, month, day) == [year |-> year, month |-> month, day |-> day]

IsLeapYear(year) ==
    (year % 4 = 0 /\ year % 100 # 0) \/ year % 400 = 0

DaysInMonth(year, month) ==
    IF month = 1 THEN (IF IsLeapYear(year) THEN 29 ELSE 28)
    ELSE IF month \in {3, 5, 8, 10} THEN 30
    ELSE 31

RECURSIVE DaysBeforeMonth(_, _)
DaysBeforeMonth(year, month) ==
    IF month = 0 THEN 0
    ELSE DaysBeforeMonth(year, month - 1) + DaysInMonth(year, month - 1)

\* the days from January 1st of the date's year to the date
DayOfYear(date) == DaysBeforeMonth(date.year, date.month) + date.day - 1

\* date - startOfSeason in days, startOfSeason being August 1st of the
\* year of the date
DaysSinceStart(date) ==
    DayOfYear(date) - DayOfYear(Date(date.year, 7, 1))

Max(a, b) == IF a >= b THEN a ELSE b
Min(a, b) == IF a <= b THEN a ELSE b

LAST_GAMEWEEK == 38

\* Math.max(1, Math.min(38, Math.floor(days / 7) + 1))
getGameweek(date) ==
    Max(1, Min(LAST_GAMEWEEK, (DaysSinceStart(date) \div 7) + 1))

\* the season as the pair of its years
getCurrentSeason(date) ==
    IF date.month >= 7 THEN <<date.year, date.year + 1>>
    ELSE <<date.year - 1, date.year>>

-----------------------------------------------------------------------------
(* Accounts: POST /auth/register, POST /auth/login, the bearer token and   *)
(* the routes of the auth router behind authenticateToken                  *)

\* bcrypt.hash and bcrypt.compare
hash(password) == [bcrypt |-> password]
compare(password, passwordHash) == passwordHash = hash(password)

\* a row of users as prisma.user.create writes it in register: isVerified
\* and walletAddress are not given and take the defaults of the table
UserRow(email, username, password) ==
    [email |-> email, username |-> username,
     passwordHash |-> hash(password),
     isVerified |-> FALSE, walletAddress |-> NoWallet]

\* expiresIn: process.env.JWT_EXPIRES_IN || '7d'
JWT_EXPIRES_IN == 7 * ONE_DAY

\* generateToken: jwt.sign({ userId }, secret, { expiresIn })
generateToken(userId, issuedAt) ==
    [present |-> TRUE, userId |-> userId, exp |-> issuedAt + JWT_EXPIRES_IN]

\* a request without an authorization header
NoToken == [present |-> FALSE, userId |-> "none", exp |-> 0]

\* authenticateToken in full: the code of its 401 answer to a request
\* carrying the token, NoError where it calls next().  jwt.verify accepts
\* the tokens signed with the secret, until they expire.
authenticateError(token) ==
    IF ~token.present THEN "TOKEN_MISSING"
    ELSE IF token \notin tokens THEN "INVALID_TOKEN"
    ELSE IF token.exp <= now THEN "TOKEN_EXPIRED"
    ELSE IF authenticateToken(token.userId) THEN NoError
    ELSE IF token.userId \notin DOMAIN users THEN "USER_NOT_FOUND"
    ELSE "EMAIL_NOT_VERIFIED"

\* the rows prisma.user.findFirst({ OR: [{ email }, { username }] }) matches
ExistingUsers(email, username) ==
    {x \in DOMAIN users : users[x].email = email
                            \/ users[x].username = username}

\* the unique indexes users_email_key and users_username_key
UniqueUserOk(email, username) == ExistingUsers(email, username) = {}

\* the id the table gives a new row
NewUserId == CHOOSE x \in Users : x \notin DOMAIN users

\* POST /auth/register up to the hashing of the password: validation and
\* the look-up of an account with the email or the username
RegisterBegin(email, username, password, valid) ==
    /\ CanStart
    /\ IF ~valid
       THEN /\ last' = Respond("register", 400, "VALIDATION")
            /\ reqs' = reqs
       ELSE IF ExistingUsers(email, username) # {}
       THEN /\ \E x \in ExistingUsers(email, username) :
                  last' = Respond("register", 409,
                                  IF users[x].email = email
                                  THEN "EMAIL_REGISTERED"
                                  ELSE "USERNAME_TAKEN")
            /\ reqs' = reqs
       ELSE /\ Suspend([pc |-> "register", email |-> email,
                        username |-> username, password |-> password])
            /\ last' = last
    /\ UNCHANGED <<users, styleCards, userStyles, transactions,
                   userProfiles, listings, now, packCards, returned,
                   sideTables, tokens>>

\* POST /auth/register from prisma.user.create on: the row and its profile,
\* then the token
RegisterCreate(h) ==
    /\ h \in At("register")
    /\ Complete(h)
    /\ IF ~UniqueUserOk(h.email, h.username)
       THEN /\ last' = Respond("register", 409, "P2002")
            /\ UNCHANGED <<users, userProfiles, tokens>>
       ELSE LET id == NewUserId
                token == generateToken(id, now)
            IN  /\ users' = [x \in DOMAIN users \cup {id} |->
                                IF x = id
                                THEN UserRow(h.email, h.username, h.password)
                                ELSE users[x]]
                /\ userProfiles' = [x \in DOMAIN userProfiles \cup {id} |->
                                        IF x = id THEN NewProfile(h.username)
                                        ELSE userProfiles[x]]
                /\ tokens' = tokens \cup {token}
                /\ last' = [op |-> "register", status |-> 201,
                            code |-> NoError, user |-> id, token |-> token]
    /\ UNCHANGED <<styleCards, userStyles, transactions, listings, now,
                   packCards, returned, sideTables>>

\* POST /auth/login
Login(login, password) ==
    /\ LET found == {x \in DOMAIN users : users[x].email = login
                                            \/ users[x].username = login}
       IN  IF found = {}
           THEN /\ last' = Respond("login", 401, "INVALID_CREDENTIALS")
                /\ tokens' = tokens
           ELSE \E x \in found :
                  IF ~compare(password, users[x].passwordHash)
                  THEN /\ last' = Respond("login", 401, "INVALID_CREDENTIALS")
                       /\ tokens' = tokens
                  ELSE LET token == generateToken(x, now)
                       IN  /\ tokens' = tokens \cup {token}
                           /\ last' = [op |-> "login", status |-> 200,
                                       code |-> NoError, user |-> x,
                                       token |-> token]
    /\ UNCHANGED <<users, styleCards, userStyles, transactions,
                   userProfiles, listings, now, reqs, packCards, returned,
                   sideTables>>

\* what a route behind authenticateToken answers once the middleware has
\* called next()
Authenticated(op, token) ==
    [op |-> op, status |-> 200, code |-> NoError, user |-> token.userId]

\* GET /auth/me
Me(token) ==
    /\ last' = IF authenticateError(token) # NoError
               THEN Respond("me", 401, authenticateError(token))
               ELSE Authenticated("me", token)
    /\ UNCHANGED <<userStyles, transactions, userProfiles, listings, now,
                   reqs, otherVars>>

\* POST /auth/refresh
Refresh(token) ==
    /\ IF authenticateError(token) # NoError
       THEN /\ last' = Respond("refresh", 401, authenticateError(token))
            /\ tokens' = tokens
       ELSE /\ last' = Authenticated("refresh", token)
            /\ tokens' = tokens \cup {generateToken(token.userId, now)}
    /\ UNCHANGED <<users, styleCards, userStyles, transactions,
                   userProfiles, listings, now, reqs, packCards, returned,
                   sideTables>>

\* POST /auth/logout
Logout(token) ==
    /\ last' = IF authenticateError(token) # NoError
               THEN Respond("logout", 401, authenticateError(token))
               ELSE Authenticated("logout", token)
    /\ UNCHANGED <<userStyles, transactions, userProfiles, listings, now,
                   reqs, otherVars>>

-----------------------------------------------------------------------------
(* The specifications                                                      *)

NoResponse == [op |-> "none"]
NoCall == [packType |-> "none"]
NoReturn == [fn |-> "none"]

\* the email address and the password of the accounts
EmailOf(u) == CASE u = "u1" -> "u1@jogata.com"
                [] u = "u2" -> "u2@jogata.com"
                [] OTHER -> "u3@jogata.com"

Password == "Passw0rd1"

\* the accounts exist and their emails are verified (no route of the
\* repository sets isVerified: it is set outside of it)
InitTables ==
    /\ users = [u \in Users |->
                    [UserRow(EmailOf(u), u, Password)
                        EXCEPT !.isVerified = TRUE]]
    /\ userStyles = EmptyBag
    /\ transactions = EmptyBag
    /\ userProfiles = [u \in Users |-> NewProfile(u)]
    /\ listings = <<>>
    /\ now = 0
    /\ reqs = EmptyBag
    /\ last = NoResponse
    /\ packCards = NoCall
    /\ returned = NoReturn
    /\ tournaments = Tournaments
    /\ tournamentEntries = EmptyBag
    /\ preOrders = <<>>
    /\ matches = <<>>
    /\ tokens = {}

PackTypeInputs == PackTypeNames \cup {"BOGUS"}
QuantityInputs == (0..MaxQuantity) \cup {MAX_QUANTITY + 1}
PriceInputs == {MIN_PRICE - 1, 1000}
CardIds == DOMAIN styleCards

(* The whole exchange: pack purchases and the marketplace, on a catalogue  *)
(* of one LEGENDARY and one MYTHIC card.                                    *)
Init ==
    /\ styleCards = MakeCatalog(0, 0, 1, 1, {})
    /\ InitTables

Next ==
    \/ \E u \in Users, packType \in PackTypeNames, quantity \in 1..MaxQuantity :
          PackPurchase(u, packType, quantity)
    \/ \E u \in Users, owner \in Users, card \in CardIds,
          price \in PriceInputs :
          /\ ListingsStarted < MaxListings
          /\ CreateListingBegin(u, owner, card, price)
    \/ \E h \in BagToSet(reqs) : CreateListingCheck(h)
    \/ \E h \in BagToSet(reqs) : CreateListingCreate(h)
    \/ \E u \in Users, id \in 1..(Len(listings) + 1) : PurchaseBegin(u, id)
    \/ \E h \in BagToSet(reqs) : PurchaseExpire(h)
    \/ \E h \in BagToSet(reqs) : PurchaseCommit(h)
    \/ \E u \in Users, id \in 1..(Len(listings) + 1) : CancelBegin(u, id)
    \/ \E h \in BagToSet(reqs) : CancelUpdate(h)
    \/ \E rarity \in {AnyRarity, "MYTHIC"} : GetListings(rarity)
    \/ \E u \in Users, type \in ActivityTypes : GetUserActivity(u, type)
    \/ Tick

Spec == Init /\ [][Next]_vars

(* Pack purchases alone, on catalogues with and without an empty pool and  *)
(* an inactive card.                                                       *)
InitPacks ==
    /\ styleCards \in Catalogs
    /\ InitTables

PackUsers == {"u1", "u2"}

NextPacks ==
    \/ \E u \in PackUsers, packType \in PackTypeInputs,
          quantity \in QuantityInputs :
          PackPurchaseInvalid(u, packType, quantity)
    \/ \E u \in PackUsers, packType \in PackTypeNames,
          quantity \in 1..MaxQuantity :
          PackPurchase(u, packType, quantity)

SpecPacks == InitPacks /\ [][NextPacks]_vars

(* The allocator alone: generatePackCards applied to a pack type on a      *)
(* catalogue; packCards holds the call and what it returned.               *)
AllocCatalogs ==
    { MakeCatalog(2, 2, 2, 2, {}), MakeCatalog(1, 3, 1, 2, {}),
      MakeCatalog(2, 0, 1, 0, {}), MakeCatalog(0, 1, 0, 1, {}) }

InitAlloc ==
    /\ styleCards \in AllocCatalogs
    /\ InitTables

GeneratePack(packType) ==
    /\ \E result \in generatePackCards(PACK_TYPES[packType], styleCards) :
          packCards' = [packType |-> packType, result |-> result]
    /\ UNCHANGED <<users, styleCards, userStyles, transactions,
                   userProfiles, listings, now, reqs, last, returned,
                   sideTables, tokens>>

NextAlloc == \E packType \in PackTypeNames : GeneratePack(packType)

SpecAlloc == InitAlloc /\ [][NextAlloc]_vars

(* The scorer alone: analyzePlayerPerformance applied once to a           *)
(* statistics record whose values lie around the thresholds, or are         *)
(* missing.                                                                 *)
MaxStat == 2            \* most goals; tackles and interceptions reach one more

OrNull(S) == S \cup {Null}

StatLines ==
    { [goals |-> [total |-> g, assists |-> a],
       passes |-> [accuracy |-> acc, key |-> k],
       dribbles |-> [success |-> d],
       tackles |-> [total |-> t, interceptions |-> i]] :
        g \in OrNull(0..MaxStat), a \in OrNull(0..1),
        acc \in OrNull({ACCURACY_THRESHOLD - 1, ACCURACY_THRESHOLD,
                        ACCURACY_THRESHOLD + 1, 90}),
        k \in OrNull((KEY_PASSES_THRESHOLD - 1)..(KEY_PASSES_THRESHOLD + 1)),
        d \in (DRIBBLES_THRESHOLD - 1)..(DRIBBLES_THRESHOLD + 1),
        t \in OrNull(0..(MaxStat + 1)), i \in OrNull(0..(MaxStat + 1)) }
    \cup {NoStatistics}

AnalyzePlayer(stats) ==
    /\ returned' = [fn |-> "analyzePlayerPerformance", stats |-> stats,
                    activations |-> analyzePlayerPerformance(stats)]
    /\ UNCHANGED <<users, styleCards, userStyles, transactions,
                   userProfiles, listings, now, reqs, last, packCards,
                   sideTables, tokens>>

\* one call in a behaviour: the function keeps no state between calls
NextScorer ==
    /\ returned = NoReturn
    /\ \E stats \in StatLines : AnalyzePlayer(stats)

SpecScorer == Init /\ [][NextScorer]_vars

(* Match processing beside pack purchases: two users buy Premium packs   *)
(* (two COMMON and three RARE cards) and finished matches are processed.    *)
MatchStatLines ==
    { [goals |-> [total |-> g, assists |-> a],
       passes |-> [accuracy |-> 90, key |-> 2],
       dribbles |-> [success |-> d],
       tackles |-> [total |-> 0, interceptions |-> Null]] :
        g \in {0, 1}, a \in {0, 1}, d \in {DRIBBLES_THRESHOLD,
                                            DRIBBLES_THRESHOLD + 1} }

PlayerStatsInputs ==
    {NoPlayerStats} \cup {PlayerStats(<<st>>) : st \in MatchStatLines}
        \cup {PlayerStats(<<st, NoStatistics>>) : st \in MatchStatLines}

InitPoints ==
    /\ styleCards = MakeCatalog(2, 3, 0, 0, {})
    /\ InitTables

NextPoints ==
    \/ \E u \in PackUsers : PackPurchase(u, "PREMIUM", 1)
    \/ \E matchStatus \in {"FT", "1H"}, playerStats \in PlayerStatsInputs,
          dbUp \in BOOLEAN :
          ProcessMatches(<<LiveMatch("m1", matchStatus, playerStats)>>, dbUp)

SpecPoints == InitPoints /\ [][NextPoints]_vars

(* The handlers beside the exchange: listings, pack opening, tournament  *)
(* entries, pre-orders, profiles and wallets, with cards bought in Genesis  *)
(* packs.                                                                  *)
MaxPreOrders == 1       \* pre-orders ever created

FrameUsers == {"u1", "u2"}
BadWallet == [Wallet("b") EXCEPT !.digits = 39]

NextFrame ==
    \/ PackPurchase("u1", "GENESIS", 1)
    \/ \E card \in CardIds, price \in PriceInputs :
          /\ ListingsStarted < MaxListings
          /\ CreateListingBegin("u1", "u1", card, price)
    \/ \E h \in BagToSet(reqs) : CreateListingCheck(h)
    \/ \E h \in BagToSet(reqs) : CreateListingCreate(h)
    \/ \E id \in 1..(Len(listings) + 1) : CancelBegin("u1", id)
    \/ \E h \in BagToSet(reqs) : CancelUpdate(h)
    \/ \E transaction \in BagToSet(transactions) \cup {NoTransaction} :
          OpenPack("u1", transaction)
    \/ \E t \in {"t0", "t1", "t3"} : EnterBegin("u2", t)
    \/ \E h \in BagToSet(reqs) : EnterCheck(h)
    \/ \E h \in BagToSet(reqs) : EnterCommit(h)
    \/ \E walletAddress \in {Wallet("a"), BadWallet},
          packCount \in {4, MAX_PACKS_PER_USER + 1},
          totalAmount \in {EARLY_BIRD_PRICE, 4 * EARLY_BIRD_PRICE} :
          /\ PreOrdersStarted < MaxPreOrders
          /\ PreOrderBegin("u1", walletAddress, packCount, totalAmount)
    \/ \E h \in BagToSet(reqs) : PreOrderFind(h)
    \/ \E h \in BagToSet(reqs) : PreOrderCreate(h)
    \/ \E h \in BagToSet(reqs) : PreOrderRecord(h)
    \/ \E h \in BagToSet(reqs) : PreOrderFounder(h)
    \/ \E h \in BagToSet(reqs) : PreOrderConfirm(h)
    \/ \E h \in BagToSet(reqs) : PreOrderComplete(h)
    \/ \E id \in 1..(Len(preOrders) + 1) : CancelPreOrderBegin("u1", id)
    \/ \E h \in BagToSet(reqs) : CancelPreOrderUpdate(h)
    \/ \E h \in BagToSet(reqs) : CancelPreOrderRefund(h)
    \/ \E displayName \in {Absent, "", "Ann"}, country \in {Absent, "GBR"} :
          UpdateProfile("u1", displayName, country)
    \/ \E u \in FrameUsers, walletAddress \in {Wallet("a"), BadWallet} :
          ConnectWalletBegin(u, walletAddress)
    \/ \E h \in BagToSet(reqs) : ConnectWalletUpdate(h)

SpecFrame == Init /\ [][NextFrame]_vars

(* Tournament entries alone: every user may ask to enter every           *)
(* tournament, and one that does not exist.                                *)
NextEnter ==
    \/ \E u \in PackUsers, t \in DOMAIN Tournaments \cup {"t0"} :
          EnterBegin(u, t)
    \/ \E h \in BagToSet(reqs) : EnterCheck(h)
    \/ \E h \in BagToSet(reqs) : EnterCommit(h)

SpecEnter == Init /\ [][NextEnter]_vars

(* Pre-orders alone: one user creates and cancels pre-orders.             *)
MaxOwnPreOrders == 2    \* pre-orders ever created in SpecPreOrders

NextPreOrders ==
    \/ \E packCount \in {4, 6} :
          /\ PreOrdersStarted < MaxOwnPreOrders
          /\ PreOrderBegin("u1", Wallet("a"), packCount,
                           packCount * EARLY_BIRD_PRICE)
    \/ \E h \in BagToSet(reqs) : PreOrderFind(h)
    \/ \E h \in BagToSet(reqs) : PreOrderCreate(h)
    \/ \E h \in BagToSet(reqs) : PreOrderRecord(h)
    \/ \E h \in BagToSet(reqs) : PreOrderFounder(h)
    \/ \E h \in BagToSet(reqs) : PreOrderConfirm(h)
    \/ \E h \in BagToSet(reqs) : PreOrderComplete(h)
    \/ \E id \in 1..(Len(preOrders) + 1) : CancelPreOrderBegin("u1", id)
    \/ \E h \in BagToSet(reqs) : CancelPreOrderUpdate(h)
    \/ \E h \in BagToSet(reqs) : CancelPreOrderRefund(h)
    \/ Tick

SpecPreOrders == Init /\ [][NextPreOrders]_vars

(* Match processing alone: runs of the handler on lists of one or two    *)
(* live matches.                                                           *)
MatchIds == {"m1", "m2"}

ScorerLine ==
    [goals |-> [total |-> 1, assists |-> 0],
     passes |-> [accuracy |-> 90, key |-> 2],
     dribbles |-> [success |-> 0],
     tackles |-> [total |-> 0, interceptions |-> Null]]

LiveMatches ==
    {LiveMatch(id, status, playerStats) :
        id \in MatchIds, status \in {"FT", "1H"},
        playerStats \in {NoPlayerStats, PlayerStats(<<ScorerLine>>)}}

\* the lists the fixtures API answers: a match is listed once
LiveLists ==
    {<<m>> : m \in LiveMatches}
        \cup {<<m, n>> : m \in {x \in LiveMatches : x.id = "m1"},
                         n \in {x \in LiveMatches : x.id = "m2"}}

NextMatches ==
    \E live \in LiveLists, dbUp \in BOOLEAN : ProcessMatches(live, dbUp)

SpecMatches == Init /\ [][NextMatches]_vars

(* The gameweek alone: calls of getGameweek and getCurrentSeason on the   *)
(* dates of a few years, one call after another.                           *)
FirstYear == 2023
MaxYears == 2           \* years the dates are drawn from

Dates ==
    {Date(year, month, day) :
        year \in FirstYear..(FirstYear + MaxYears - 1), month \in 0..11,
        day \in 1..31} \ {d \in [year : FirstYear..(FirstYear + MaxYears - 1),
                                   month : 0..11, day : 29..31] :
                            d.day > DaysInMonth(d.year, d.month)}

Gameweek(date) ==
    /\ returned' = [fn |-> "getGameweek", date |-> date,
                    gameweek |-> getGameweek(date),
                    season |-> getCurrentSeason(date)]
    /\ UNCHANGED <<users, styleCards, userStyles, transactions,
                   userProfiles, listings, now, reqs, last, packCards,
                   sideTables, tokens>>

NextGameweek == \E date \in Dates : Gameweek(date)

SpecGameweek == Init /\ [][NextGameweek]_vars

(* The fee split alone: the amounts of the two transaction records of a   *)
(* sale at a price the creation of a listing accepts.                       *)
MaxPriceSpan == 200     \* prices from MIN_PRICE to MIN_PRICE + MaxPriceSpan
FeePrices ==
    (MIN_PRICE..(MIN_PRICE + MaxPriceSpan)) \cup {1000, 16380, 16384, 32760}

SplitFee(price) ==
    /\ returned' = [fn |-> "sellerAmount", price |-> price,
                    buyerAmount |->
                        MarketTransaction("u1", "MARKETPLACE_BUY", price).amount,
                    sellerAmount |->
                        MarketTransaction("u2", "MARKETPLACE_SELL",
                                          sellerAmount(price)).amount]
    /\ UNCHANGED <<users, styleCards, userStyles, transactions,
                   userProfiles, listings, now, reqs, last, packCards,
                   sideTables, tokens>>

NextFee == \E price \in FeePrices : SplitFee(price)

SpecFee == Init /\ [][NextFee]_vars

(* Listing creation and cancellation alone, with cards bought in Genesis   *)
(* packs.                                                                  *)
MaxOwnListings == 2     \* listings ever created in SpecListings

NextListings ==
    \/ \E u \in PackUsers : PackPurchase(u, "GENESIS", 1)
    \/ \E u \in PackUsers, owner \in PackUsers, card \in CardIds,
          price \in PriceInputs :
          /\ ListingsStarted < MaxOwnListings
          /\ CreateListingBegin(u, owner, card, price)
    \/ \E h \in BagToSet(reqs) : CreateListingCheck(h)
    \/ \E h \in BagToSet(reqs) : CreateListingCreate(h)
    \/ \E u \in PackUsers, id \in 1..(Len(listings) + 1) : CancelBegin(u, id)
    \/ \E h \in BagToSet(reqs) : CancelUpdate(h)
    \/ Tick

SpecListings == Init /\ [][NextListings]_vars

(* One seller and one buyer: u1 buys a Genesis pack and lists its cards, *)
(* u2 purchases the listings.                                              *)
NextMarket ==
    \/ PackPurchase("u1", "GENESIS", 1)
    \/ \E card \in CardIds :
          /\ ListingsStarted < MaxOwnListings
          /\ CreateListingBegin("u1", "u1", card, 1000)
    \/ \E h \in BagToSet(reqs) : CreateListingCheck(h)
    \/ \E h \in BagToSet(reqs) : CreateListingCreate(h)
    \/ \E id \in 1..(Len(listings) + 1) : PurchaseBegin("u2", id)
    \/ \E h \in BagToSet(reqs) : PurchaseExpire(h)
    \/ \E h \in BagToSet(reqs) : PurchaseCommit(h)
    \/ Tick

SpecMarket == Init /\ [][NextMarket]_vars

-----------------------------------------------------------------------------
(* Properties                                                              *)

RowsOfUser(rows, u) ==
    LET RECURSIVE Sum(_)
        Sum(S) == IF S = {} THEN 0
                  ELSE LET c == CHOOSE x \in S : TRUE
                       IN  RowCount(rows, u, c) + Sum(S \ {c})
    IN  Sum(CardIds)

\* C1: a pack purchase of N packs either succeeds, and then exactly
\* N * cards new ownership rows of the user, exactly one PACK_PURCHASE
\* record and packsPurchased + N appear in the same step, or it fails and no
\* table changes.
PackPurchaseAtomic ==
    [][IF last'.op = "packPurchase" /\ last'.status = 200
       THEN LET record == last'.transaction[1]
                u == record.userId
                quantity == record.description[1]
            IN  \E packType \in PackTypeNames :
                  /\ last'.packType = packType
                  /\ record.description[2] = PACK_TYPES[packType].name
                  /\ record.amount = quantity * PACK_TYPES[packType].price
                  /\ last'.cards = quantity * PACK_TYPES[packType].cards
                  /\ RowsOfUser(userStyles', u) =
                        RowsOfUser(userStyles, u) + last'.cards
                  /\ BagCardinality(userStyles') =
                        BagCardinality(userStyles) + last'.cards
                  /\ transactions' = transactions (+) SetToBag({record})
                  /\ userProfiles' =
                        [userProfiles EXCEPT ![u].packsPurchased = @ + quantity]
       ELSE UNCHANGED <<userStyles, transactions, userProfiles, listings>>
      ]_vars

\* a purchase of two Genesis packs went through: four rows, one record, and
\* a counter of 2
PackPurchaseAtomicWitness ==
    \E u \in Users :
        /\ last.op = "packPurchase"
        /\ last.status = 200
        /\ last.cards = 4
        /\ userProfiles[u].packsPurchased = 2
        /\ RowsOfUser(userStyles, u) = 4
        /\ BagCardinality(transactions) = 1

TerminalStatus == {"SOLD", "CANCELLED", "EXPIRED"}

\* C2: once a listing is SOLD, CANCELLED or EXPIRED its status never changes
\* again.
ListingTerminalIsFinal ==
    [][\A id \in 1..Len(listings) :
          listings[id].status \in TerminalStatus =>
              listings'[id].status = listings[id].status]_vars

\* the listing `id` is sold in this step: it becomes SOLD, or SOLD to
\* another buyer
SoldNow(id) ==
    /\ listings'[id].status = "SOLD"
    /\ \/ listings[id].status # "SOLD"
       \/ listings'[id].buyerId # listings[id].buyerId

MarketRecords(txs) ==
    {t \in BagToSet(txs) : t.type \in {"MARKETPLACE_BUY", "MARKETPLACE_SELL"}}

\* C3: a step that sells a listing applies every effect of the sale: the
\* listing is SOLD to the buyer with soldAt set, one MARKETPLACE_BUY record
\* of the buyer at the listing price and one MARKETPLACE_SELL record of the
\* seller are added, the buyer has one row of the card with zero points and
\* the seller none; and no other step adds a marketplace record.
MarketPurchaseAtomic ==
    [][/\ \A id \in 1..Len(listings) :
            SoldNow(id) =>
              LET l == listings'[id] IN
              /\ l.buyerId \in Users \ {l.sellerId}
              /\ l.soldAt # NoTime
              /\ \E a \in 0..l.price :
                    transactions' = (transactions
                        (+) SetToBag({[userId |-> l.buyerId,
                                       type |-> "MARKETPLACE_BUY",
                                       amount |-> l.price,
                                       description |-> <<>>,
                                       status |-> "COMPLETED"]}))
                        (+) SetToBag({[userId |-> l.sellerId,
                                       type |-> "MARKETPLACE_SELL",
                                       amount |-> a,
                                       description |-> <<>>,
                                       status |-> "COMPLETED"]})
              /\ RowsOf(userStyles', l.buyerId, l.styleCardId) =
                    {NewUserStyle(l.buyerId, l.styleCardId)}
              /\ RowCount(userStyles', l.buyerId, l.styleCardId) = 1
              /\ RowCount(userStyles, l.buyerId, l.styleCardId) = 0
              /\ RowCount(userStyles', l.sellerId, l.styleCardId) = 0
       /\ (\E t \in MarketRecords(transactions') :
              CopiesIn(t, transactions') > CopiesIn(t, transactions))
            => \E id \in 1..Len(listings) : SoldNow(id)
      ]_vars

\* a sale went through: the listing is SOLD and the buyer holds the card
MarketPurchaseAtomicWitness ==
    /\ last = [op |-> "purchase", status |-> 200, code |-> NoError]
    /\ \E id \in 1..Len(listings) :
          /\ listings[id].status = "SOLD"
          /\ RowCount(userStyles, listings[id].buyerId,
                      listings[id].styleCardId) = 1

\* C4: the ownership ledger holds at most one row for each (user, card).
OneRowPerUserCard ==
    \A u \in Users, c \in CardIds : RowCount(userStyles, u, c) <= 1

\* after a pack purchase and a sale the buyer holds the card bought, and
\* the seller the other card of the pack
OneRowPerUserCardWitness ==
    \E id \in 1..Len(listings) :
        /\ listings[id].status = "SOLD"
        /\ listings[id].buyerId \in Users
        /\ RowCount(userStyles, listings[id].buyerId,
                    listings[id].styleCardId) = 1
        /\ userProfiles[listings[id].sellerId].packsPurchased > 0
        /\ RowsOfUser(userStyles, listings[id].sellerId) = 1

\* C5: acquiring a card the user already holds succeeds: a pack purchase
\* that draws a held card completes, and no marketplace purchase is
\* rejected by the unique (user, card) index.
ReacquisitionSucceeds ==
    /\ (last.op = "packPurchase" /\ last.reacquired) => last.status = 200
    /\ last.op = "purchase" => last.code # "P2002"

\* C6: a pack purchase whose draw holds the same card twice completes.
DuplicateDrawSucceeds ==
    (last.op = "packPurchase" /\ last.duplicate) => last.status = 200

RECURSIVE Repeat(_, _)
Repeat(x, n) == IF n = 0 THEN <<>> ELSE <<x>> \o Repeat(x, n - 1)

\* the rarities of a pack, rarity by rarity in the order of the map
RarityGroups(distribution) ==
    Repeat("COMMON", distribution.COMMON) \o Repeat("RARE", distribution.RARE)
        \o Repeat("LEGENDARY", distribution.LEGENDARY)
        \o Repeat("MYTHIC", distribution.MYTHIC)

\* C7: the rarity counts of every pack type sum to its card count, and the
\* cards generatePackCards returns are that many, with the rarities of the
\* distribution, grouped in the order COMMON, RARE, LEGENDARY, MYTHIC.
PackCardsMatchDistribution ==
    /\ \A packType \in PackTypeNames :
          LET d == PACK_TYPES[packType].rarityDistribution
          IN  d.COMMON + d.RARE + d.LEGENDARY + d.MYTHIC
                  = PACK_TYPES[packType].cards
    /\ (packCards # NoCall /\ packCards.result.error = NoError) =>
          LET cards == packCards.result.cards
              want == RarityGroups(
                          PACK_TYPES[packCards.packType].rarityDistribution)
          IN  /\ Len(cards) = PACK_TYPES[packCards.packType].cards
              /\ Len(cards) = Len(want)
              /\ \A i \in 1..Len(cards) :
                    /\ cards[i] \in DOMAIN styleCards
                    /\ styleCards[cards[i]].rarity = want[i]

\* a Premium pack was generated: two commons, then three rares
PackCardsMatchDistributionWitness ==
    /\ packCards # NoCall
    /\ packCards.packType = "PREMIUM"
    /\ packCards.result.error = NoError
    /\ Len(packCards.result.cards) = 5
    /\ styleCards[packCards.result.cards[2]].rarity = "COMMON"
    /\ styleCards[packCards.result.cards[3]].rarity = "RARE"

EmptyNonZeroPools(packType) ==
    {r \in DOMAIN PACK_TYPES[packType].rarityDistribution :
        /\ PACK_TYPES[packType].rarityDistribution[r] > 0
        /\ availableCards(styleCards, r) = {}}

\* C8: a valid pack purchase fails with the no-cards error exactly when a
\* rarity with a non-zero count has an empty pool; the error names such a
\* rarity and the purchase changes no table.
NoCardsIffEmptyPool ==
    [][(last'.op = "packPurchase" /\ last'.status # 400) =>
          /\ last'.code = "NO_CARDS" <=> EmptyNonZeroPools(last'.packType) # {}
          /\ last'.code = "NO_CARDS" =>
                /\ last'.rarity \in EmptyNonZeroPools(last'.packType)
                /\ UNCHANGED <<userStyles, transactions, userProfiles, listings>>
      ]_vars

\* a Genesis purchase failed on the empty MYTHIC pool after its LEGENDARY
\* draw, and an Evolution pack can be bought although the COMMON and MYTHIC
\* pools it does not draw from are empty
NoCardsIffEmptyPoolWitness ==
    /\ last.op = "packPurchase"
    /\ last.packType = "GENESIS"
    /\ last.code = "NO_CARDS"
    /\ last.rarity = "MYTHIC"
    /\ availableCards(styleCards, "LEGENDARY") # {}
    /\ availableCards(styleCards, "COMMON") = {}
    /\ \E u \in Users : EmptyNonZeroPools("EVOLUTION") = {}
                        /\ RowsOfUser(userStyles, u) = 3

\* the ownership rows a step adds
NewRows == {r \in BagToSet(userStyles') :
               CopiesIn(r, userStyles') > CopiesIn(r, userStyles)}

\* C9: the cards a pack purchase grants are, for each rarity bucket, as
\* many cards of exactly that rarity as the bucket asks for, and every one
\* of them is an active card (isActive = TRUE).
GrantedCardsActive ==
    [][(last'.op = "packPurchase" /\ last'.status = 200) =>
          LET d == PACK_TYPES[last'.packType].rarityDistribution
              quantity == last'.transaction[1].description[1]
          IN  /\ \A rarity \in DOMAIN d :
                    Cardinality({r \in NewRows :
                        styleCards[r.styleCardId].rarity = rarity})
                      = quantity * d[rarity]
              /\ \A r \in NewRows : styleCards[r.styleCardId].isActive
      ]_vars

CardRows(rows, c) ==
    LET RECURSIVE Sum(_)
        Sum(S) == IF S = {} THEN 0
                  ELSE LET u == CHOOSE x \in S : TRUE
                       IN  RowCount(rows, u, c) + Sum(S \ {u})
    IN  Sum(Users)

\* C10: the copies of a card granted never exceed its maxSupply.
SupplyWithinMax ==
    \A c \in CardIds : CardRows(userStyles, c) <= styleCards[c].maxSupply

\* C11: a sale is completed only for a listing that is ACTIVE, by a buyer
\* who is not its seller, and not after expiresAt; a purchase request that
\* is rejected adds no transaction record and adds or removes no ownership
\* row.
PurchaseRejectedCompletesNothing ==
    [][/\ \A id \in 1..Len(listings) :
            SoldNow(id) =>
              /\ listings[id].status = "ACTIVE"
              /\ listings'[id].buyerId # listings[id].sellerId
              /\ ~(listings[id].expiresAt < now)
       /\ (last'.op = "purchase" /\ last'.status # 200) =>
              UNCHANGED <<transactions, userStyles>>
      ]_vars

\* C12: a purchase attempt by any authenticated user on an ACTIVE listing
\* past its expiresAt goes on to set the listing EXPIRED and to answer
\* LISTING_EXPIRED, and no listing is sold after its expiresAt.
PurchaseAfterExpiryExpires ==
    [][/\ \A u \in Users, id \in 1..Len(listings) :
            (/\ PurchaseBegin(u, id)
             /\ listings[id].status = "ACTIVE"
             /\ listings[id].expiresAt < now)
              => [pc |-> "expire", user |-> u, id |-> id] \in BagToSet(reqs')
       /\ \A id \in 1..Len(listings) :
            SoldNow(id) => ~(listings[id].expiresAt < now)
      ]_vars

\* C13: no read (the listings index, the user activity view) returns as
\* ACTIVE a listing that is past its expiresAt.
NoExpiredListingReturnedActive ==
    [][(\/ \E rarity \in {AnyRarity, "MYTHIC"} : GetListings(rarity)
        \/ \E u \in Users, type \in ActivityTypes : GetUserActivity(u, type))
          => \A r \in last'.listings :
                r.status = "ACTIVE" => ~(listings[r.id].expiresAt < now)
      ]_vars

\* C14: a sale at an accepted price p records the buyer amount p and the
\* seller amount floor(95 p / 100); the seller amount never exceeds the
\* buyer amount, the fee p - floor(95 p / 100) is at least 5% of p, and
\* 1000 splits into 1000 and 950.
FeeSplit ==
    returned.fn = "sellerAmount" =>
        LET p == returned.price IN
        /\ p >= MIN_PRICE
        /\ returned.buyerAmount = p
        /\ returned.sellerAmount = (95 * p) \div 100
        /\ returned.sellerAmount <= returned.buyerAmount
        /\ 100 * (p - returned.sellerAmount) >= 5 * p
        /\ p = 1000 => returned.sellerAmount = 950

\* the sale at 1000 was split, and so was one at a price whose 95% is an
\* integer just below a power of two
FeeSplitWitness ==
    /\ returned.fn = "sellerAmount"
    /\ returned.price \in {1000, 16380}
    /\ returned.sellerAmount \in {950, 15561}

\* C15: a listing is created only for a requester who holds the row and
\* has no ACTIVE listing of the card, and it is ACTIVE, expires 30 days
\* after its creation and costs at least the minimum; a request is
\* rejected with STYLE_NOT_OWNED only when the row is missing or another
\* user's, with ALREADY_LISTED only when such an ACTIVE listing exists, and
\* a rejected request creates or changes no listing.
ListingCreatedIffOwnedAndUnlisted ==
    [][/\ Len(listings') > Len(listings) =>
            LET l == listings'[Len(listings')] IN
            /\ l.status = "ACTIVE"
            /\ l.expiresAt = now + THIRTY_DAYS
            /\ l.price >= MIN_PRICE
            /\ RowCount(userStyles, l.sellerId, l.styleCardId) > 0
            /\ ActiveListings(listings, l.sellerId, l.styleCardId) = {}
       /\ \A u \in Users, owner \in Users, card \in CardIds,
             price \in PriceInputs :
            (CreateListingBegin(u, owner, card, price) /\ reqs' = reqs
                /\ last' = Respond("createListing", 404, "STYLE_NOT_OWNED"))
              => (owner # u \/ RowCount(userStyles, owner, card) = 0)
       /\ \A h \in BagToSet(reqs) :
            (CreateListingCheck(h) /\ Complete(h)
                /\ last' = Respond("createListing", 409, "ALREADY_LISTED"))
              => ActiveListings(listings, h.user, h.card) # {}
       /\ (last'.op = "createListing" /\ last'.status # 201) =>
              listings' = listings
      ]_vars

\* C16: a marketplace purchase whose transaction fails is rolled back
\* whole: no table changes, so a listing that was ACTIVE stays ACTIVE with
\* no buyer, no MARKETPLACE_BUY or MARKETPLACE_SELL record is added and the
\* seller's ownership row of the card is still there.
MarketPurchaseRollsBack ==
    [][last' = Respond("purchase", 409, "P2002") =>
          /\ \A id \in 1..Len(listings) :
                LET l == listings[id] IN
                /\ l.status = "ACTIVE" =>
                      /\ listings'[id].status = "ACTIVE"
                      /\ listings'[id].buyerId = NoUser
                /\ RowsOf(userStyles', l.sellerId, l.styleCardId)
                      = RowsOf(userStyles, l.sellerId, l.styleCardId)
          /\ listings' = listings
          /\ MarketRecords(transactions') = MarketRecords(transactions)
          /\ transactions' = transactions
          /\ userStyles' = userStyles
          /\ userProfiles' = userProfiles
      ]_vars

\* a buyer who already held the listed card was refused by the unique
\* index: the listing is still ACTIVE, nobody bought it, no marketplace
\* record exists and the seller still holds the card
MarketPurchaseRollsBackWitness ==
    /\ last = Respond("purchase", 409, "P2002")
    /\ MarketRecords(transactions) = {}
    /\ \E id \in 1..Len(listings) :
          /\ listings[id].status = "ACTIVE"
          /\ listings[id].buyerId = NoUser
          /\ RowCount(userStyles, listings[id].sellerId,
                      listings[id].styleCardId) = 1

\* the activations of a style among those returned
OfStyle(activations, styleName) ==
    {i \in 1..Len(activations) : activations[i].styleName = styleName}

\* a style was emitted exactly when `rule` holds, and then with `points`
EmitsIff(activations, styleName, rule, points) ==
    /\ OfStyle(activations, styleName) # {} <=> rule
    /\ \A i \in OfStyle(activations, styleName) : activations[i].points = points

\* C17: analyzePlayerPerformance emits Clinical Finisher iff goals > 0,
\* with goals * 10 points; Speedster iff accuracy > 85 and dribbles > 3,
\* with 5 points; Ball Winner iff tackles + interceptions > 5, with twice
\* their sum; Playmaker iff assists > 0 or key passes > 3, with
\* assists * 8 + key passes * 2; a missing statistic counts as 0 and a
\* value at its threshold does not activate.
ScorerRules ==
    (returned.fn = "analyzePlayerPerformance"
        /\ returned.stats # NoStatistics) =>
        LET st == returned.stats
            acts == returned.activations
            goals == ToNumber(st.goals.total)
            assists == ToNumber(st.goals.assists)
            accuracy == ToNumber(st.passes.accuracy)
            keyPasses == ToNumber(st.passes.key)
            dribbles == ToNumber(st.dribbles.success)
            defensive == ToNumber(st.tackles.total)
                            + ToNumber(st.tackles.interceptions)
        IN  /\ EmitsIff(acts, "Clinical Finisher", goals > 0, goals * 10)
            /\ EmitsIff(acts, "Speedster", accuracy > 85 /\ dribbles > 3, 5)
            /\ EmitsIff(acts, "Ball Winner", defensive > 5, defensive * 2)
            /\ EmitsIff(acts, "Playmaker", assists > 0 \/ keyPasses > 3,
                        assists * 8 + keyPasses * 2)
            /\ \A i \in 1..Len(acts) :
                  acts[i].styleName \in {"Clinical Finisher", "Speedster",
                                         "Ball Winner", "Playmaker"}

\* a line exactly at the four thresholds (85, 3, 5, 3) and without goals
\* or assists was scored, and activated nothing
ScorerRulesWitness ==
    /\ returned.fn = "analyzePlayerPerformance"
    /\ returned.stats # NoStatistics
    /\ returned.stats.passes = [accuracy |-> 85, key |-> 3]
    /\ returned.stats.dribbles.success = 3
    /\ returned.stats.tackles = [total |-> 3, interceptions |-> 2]
    /\ returned.stats.goals = [total |-> 0, assists |-> 0]
    /\ returned.activations = <<>>

\* the rules of the scorer a statistics record satisfies
RulesSatisfied(st) ==
    {rule \in {"Clinical Finisher", "Speedster", "Ball Winner", "Playmaker"} :
        CASE rule = "Clinical Finisher" -> ToNumber(st.goals.total) > 0
          [] rule = "Speedster" -> /\ ToNumber(st.passes.accuracy) > 85
                                   /\ ToNumber(st.dribbles.success) > 3
          [] rule = "Ball Winner" ->
                ToNumber(st.tackles.total)
                    + ToNumber(st.tackles.interceptions) > 5
          [] OTHER -> \/ ToNumber(st.goals.assists) > 0
                      \/ ToNumber(st.passes.key) > 3}

\* C18: the scorer returns as many activations as rules are satisfied, no
\* style twice, and an empty list when no rule is satisfied (or the line
\* is missing); 2 goals, 90% accuracy, 4 dribbles, 1 assist, 2 key passes
\* and no defensive action give Clinical Finisher 20, Speedster 5 and
\* Playmaker 12, and no Ball Winner.
ScorerRulesIndependent ==
    returned.fn = "analyzePlayerPerformance" =>
        LET st == returned.stats
            acts == returned.activations
        IN  IF st = NoStatistics THEN acts = <<>>
            ELSE /\ Len(acts) = Cardinality(RulesSatisfied(st))
                 /\ {acts[i].styleName : i \in 1..Len(acts)}
                        = RulesSatisfied(st)
                 /\ \A i, j \in 1..Len(acts) :
                        acts[i].styleName = acts[j].styleName => i = j
                 /\ RulesSatisfied(st) = {} => acts = <<>>
                 /\ (/\ st.goals = [total |-> 2, assists |-> 1]
                     /\ st.passes = [accuracy |-> 90, key |-> 2]
                     /\ st.dribbles.success = 4
                     /\ ToNumber(st.tackles.total)
                            + ToNumber(st.tackles.interceptions) = 0)
                      => acts = <<Activation("Clinical Finisher", 20, 90),
                                  Activation("Speedster", 5, 70),
                                  Activation("Playmaker", 12, 85)>>

\* the line of the example was scored and gave three activations
ScorerRulesIndependentWitness ==
    /\ returned.fn = "analyzePlayerPerformance"
    /\ returned.stats # NoStatistics
    /\ returned.stats.goals = [total |-> 2, assists |-> 1]
    /\ returned.stats.passes = [accuracy |-> 90, key |-> 2]
    /\ returned.stats.dribbles.success = 4
    /\ returned.stats.tackles = [total |-> 0, interceptions |-> 0]
    /\ Len(returned.activations) = 3

\* the ownership rows of the cards of a style
RowsOfStyle(rows, name) ==
    {r \in BagToSet(rows) : cardName(r.styleCardId) = name}

\* C19: when an activation of P points on a style is produced, every
\* ownership row of a card of that style gains P in totalPoints and in
\* weeklyPoints and one activation, and its owner's totalPoints gains P
\* with it; the rows of other cards do not change.
PointsPropagate ==
    [][(/\ returned'.fn = "processMatchForActivations"
        /\ returned' # returned
        /\ Len(returned'.calls) = 1
        /\ Len(returned'.calls[1].result.activations) = 1) =>
          LET a == returned'.calls[1].result.activations[1] IN
          /\ \A r \in RowsOfStyle(userStyles, a.styleName) :
                /\ [r EXCEPT !.totalPoints = @ + a.points,
                             !.weeklyPoints = @ + a.points,
                             !.activationCount = @ + 1]
                      \in BagToSet(userStyles')
                /\ userProfiles'[r.userId].totalPoints
                      = userProfiles[r.userId].totalPoints + a.points
          /\ \A r \in BagToSet(userStyles)
                        \ RowsOfStyle(userStyles, a.styleName) :
                CopiesIn(r, userStyles') = CopiesIn(r, userStyles)
      ]_vars

\* the step is the commit of a pack purchase, of a marketplace purchase, or
\* a run of the match processing
OwnershipWriter ==
    \/ /\ last'.op = "packPurchase" /\ last'.status = 200
       /\ reqs' = reqs
    \/ /\ last'.op = "purchase" /\ last'.status = 200
       /\ \E h \in At("purchaseTx") : Complete(h)
    \/ /\ returned'.fn = "processMatchForActivations"
       /\ returned' # returned

\* the handlers that must leave the ownership rows alone
FrameOps ==
    {"createListing", "cancel", "openPack", "enter", "createPreOrder",
     "cancelPreOrder", "updateProfile", "connectWallet"}

\* C20: a step that creates, changes or deletes an ownership row is a pack
\* purchase, a point propagation or a marketplace purchase; every step of
\* listing creation, listing cancellation, pack opening, tournament entry,
\* pre-order creation and cancellation, profile update and wallet
\* connection leaves every ownership row unchanged.
OwnershipFrame ==
    [][/\ userStyles' # userStyles => OwnershipWriter
       /\ (last'.op \in FrameOps /\ (last' # last \/ reqs' # reqs))
            => userStyles' = userStyles
      ]_vars

\* every one of these handlers has acted on a state with ownership rows,
\* and the rows are as the pack purchase made them
OwnershipFrameWitness ==
    /\ BagCardinality(userStyles) = 2
    /\ \A r \in BagToSet(userStyles) :
          r = NewUserStyle("u1", r.styleCardId)
    /\ Len(listings) = 1 /\ listings[1].status = "CANCELLED"
    /\ tournamentEntries # EmptyBag
    /\ Len(preOrders) = 1 /\ preOrders[1].status = "CANCELLED"
    /\ userProfiles["u1"].displayName = "Ann"
    /\ userProfiles["u1"].isFounder
    /\ users["u1"].walletAddress = Wallet("a")
    /\ last = Respond("openPack", 200, NoError)

FeeRecords(rows, u, t) == CopiesIn(EntryTransaction(u, t), rows)

\* the enter request `h` is answered in this step
EnterAnswered(h) ==
    /\ h.pc \in {"enterCheck", "enterCommit"}
    /\ Complete(h)

RecordsOfType(rows, type) ==
    BagCardinality([r \in {x \in BagToSet(rows) : x.type = type} |->
                        CopiesIn(r, rows)])

\* C22: a listing is sold at most once: a purchase request that succeeds
\* does so on a listing no other request has sold, so the marketplace
\* records of either type never outnumber the listings.
SoldAtMostOnce ==
    [][/\ \A h \in At("purchaseTx") :
            (Complete(h) /\ last' = Respond("purchase", 200, NoError))
                => listings[h.id].status # "SOLD"
       /\ RecordsOfType(transactions', "MARKETPLACE_BUY") <= Len(listings')
       /\ RecordsOfType(transactions', "MARKETPLACE_SELL") <= Len(listings')
      ]_vars

\* C23: whatever the interleaving of create-listing, cancel and purchase
\* requests, a seller has at most one ACTIVE listing of a style card.
OneActiveListingPerCard ==
    \A seller \in Users, card \in CardIds :
        Cardinality(ActiveListings(listings, seller, card)) <= 1

\* C24: in every reachable state the seller of each ACTIVE listing holds an
\* ownership row of the listed style card.
ActiveListingSellerOwns ==
    \A id \in 1..Len(listings) :
        listings[id].status = "ACTIVE"
            => RowCount(userStyles, listings[id].sellerId,
                        listings[id].styleCardId) > 0

\* C25: whatever the interleaving of the enter requests of distinct users,
\* a tournament with a maxEntries limit never holds more entries than the
\* limit, and an entry is only added to a tournament that is UPCOMING.
EntriesWithinLimit ==
    [][\A t \in DOMAIN tournaments :
          /\ tournaments[t].maxEntries # NoMaxEntries
                => BagCardinality(EntriesOf(tournamentEntries', t))
                      <= tournaments[t].maxEntries
          /\ BagCardinality(EntriesOf(tournamentEntries', t))
                > BagCardinality(EntriesOf(tournamentEntries, t))
                => tournaments[t].status = "UPCOMING"
      ]_vars

RECURSIVE openPacks(_, _, _)
\* the packCount of the user's pre-orders that are not CANCELLED
openPacks(orders, u, i) ==
    IF i > Len(orders) THEN 0
    ELSE (IF orders[i].userId = u /\ orders[i].status # "CANCELLED"
          THEN orders[i].packCount ELSE 0)
            + openPacks(orders, u, i + 1)

\* C26: whatever the interleaving of one user's create and cancel requests,
\* the packs of the user's pre-orders that are not CANCELLED never exceed
\* MAX_PACKS_PER_USER, and a create request that passed the price and early
\* bird checks is not refused for the limit when those packs plus the packs
\* it asks for are within the limit.
PreOrderPacksWithinLimit ==
    [][/\ \A u \in Users : openPacks(preOrders', u, 1) <= MAX_PACKS_PER_USER
       /\ \A h \in At("preFind") :
            (Complete(h) /\ last' = Respond("createPreOrder", 400,
                                            "MAX_PACKS_EXCEEDED"))
               => openPacks(preOrders, h.user, 1) + h.packCount
                     > MAX_PACKS_PER_USER
      ]_vars

\* the matches the run of this step scored: those a call returned
\* activations for
ScoredNow ==
    {returned'.calls[i].matchId : i \in
        {j \in 1..Len(returned'.calls) :
            Len(returned'.calls[j].result.activations) > 0}}

MatchRun ==
    /\ returned'.fn = "processMatchForActivations"
    /\ last'.op = "processMatches"

\* C27: a finished match is scored at most once: a run of the handler does
\* not score a match whose processed flag is already true, and the flag of
\* a match never returns to false.
MatchScoredOnce ==
    [][/\ MatchRun =>
            \A id \in ScoredNow :
                ~(id \in DOMAIN matches /\ matches[id].processed)
       /\ \A id \in DOMAIN matches :
            matches[id].processed => matches'[id].processed
      ]_vars

Finished(live) == {i \in 1..Len(live) : live[i].status = "FT"}

\* C28: processMatchForActivations returns a list on every path, the
\* failure of the statistics fetch included, so a run of the handler calls
\* it for every finished match of the list and answers with its counts; a
\* match whose statistics could not be fetched is not marked processed.
MatchRunCompletes ==
    [][MatchRun =>
          LET live == returned'.live
              calls == returned'.calls
          IN  /\ \A i \in 1..Len(calls) : ~calls[i].result.undefined
              /\ Len(calls) = Cardinality(Finished(live))
              /\ last'.status = 200
              /\ last'.matchesFound = Len(live)
              /\ \A i \in Finished(live) :
                    (~live[i].playerStats.fetched
                        /\ live[i].id \in DOMAIN matches')
                      => ~matches'[live[i].id].processed
      ]_vars

\* d1 is not after d2
NotAfter(d1, d2) ==
    \/ d1.year < d2.year
    \/ d1.year = d2.year /\ DayOfYear(d1) <= DayOfYear(d2)

\* C29: getGameweek returns an integer of 1..38 for every date, and of two
\* dates of one season the later one has no smaller gameweek (checked on
\* every call and the call before it).
GameweekOrdersSeason ==
    [][returned'.fn = "getGameweek" =>
          /\ returned'.gameweek \in 1..LAST_GAMEWEEK
          /\ (/\ returned.fn = "getGameweek"
              /\ returned.season = returned'.season
              /\ NotAfter(returned.date, returned'.date))
                => returned.gameweek <= returned'.gameweek
      ]_vars

-----------------------------------------------------------------------------
(* Accounts from an empty users table                                      *)

\* no account exists yet
InitAuth ==
    /\ styleCards = MakeCatalog(0, 0, 1, 1, {})
    /\ users = [u \in {} |-> UserRow(EmailOf(u), u, Password)]
    /\ userProfiles = [u \in {} |-> NewProfile(u)]
    /\ userStyles = EmptyBag
    /\ transactions = EmptyBag
    /\ listings = <<>>
    /\ now = 0
    /\ reqs = EmptyBag
    /\ last = NoResponse
    /\ packCards = NoCall
    /\ returned = NoReturn
    /\ tournaments = Tournaments
    /\ tournamentEntries = EmptyBag
    /\ preOrders = <<>>
    /\ matches = <<>>
    /\ tokens = {}

AuthEmails == {EmailOf("u1"), EmailOf("u2")}
AuthNames == {"ann", "bob"}
WrongPassword == "Wrong0rd1"

\* the bearer tokens a request can carry: none, or a token of the form the
\* server signs (one the server did not sign fails jwt.verify)
Bearers ==
    {NoToken} \cup {generateToken(u, t) : u \in Users,
                                          t \in {0, TickStep}}

NextAuth ==
    \/ \E email \in AuthEmails, username \in AuthNames, valid \in BOOLEAN :
          RegisterBegin(email, username, Password, valid)
    \/ \E h \in At("register") : RegisterCreate(h)
    \/ \E login \in AuthEmails \cup AuthNames,
          password \in {Password, WrongPassword} : Login(login, password)
    \/ \E token \in Bearers : Me(token)
    \/ \E token \in Bearers : Refresh(token)
    \/ \E token \in Bearers : Logout(token)
    \/ Tick

SpecAuth == InitAuth /\ [][NextAuth]_vars

\* every client keeps trying: each login and each request to GET /auth/me
\* that would change the state is eventually sent and answered
SpecAuthFair ==
    /\ SpecAuth
    /\ \A login \in AuthEmails \cup AuthNames : WF_vars(Login(login, Password))
    /\ \A token \in Bearers : WF_vars(Me(token))

\* the server has signed a token for the user
HoldsToken(u) == \E token \in tokens : token.userId = u

\* the last request was one of the user that authenticateToken let through
Accepted(u) ==
    \E op \in {"me", "refresh", "logout"} :
        last = [op |-> op, status |-> 200, code |-> NoError, user |-> u]

\* no account is verified and no request has been let through
NeverAccepted ==
    \A u \in Users : /\ ~Accepted(u)
                     /\ u \in DOMAIN users => ~users[u].isVerified

\* C30: a user who registered and received a bearer token is not rejected
\* forever: with the token, or one of a later login, a request to a route
\* behind authenticateToken is eventually accepted.
TokenIsAccepted ==
    \A u \in Users : [](HoldsToken(u) => <>Accepted(u))

=============================================================================
